---------------------------- MODULE Spec2Model ----------------------------
(***************************************************************************)
(* Verification model of the state registry and the batched inference      *)
(* scheduler of web-rwkv-axum.                                             *)
(*                                                                         *)
(* Two generations of the registry live in the sources and both are        *)
(* modelled:                                                               *)
(*   - app.rs: AppState keeps infer_states, a map id -> Option<State>;     *)
(*     infer reads the stored states, hands them to the inference queue    *)
(*     and writes the returned states back (specification SpecApp);        *)
(*   - components/state/mod.rs: InferStates keeps a map id -> NamedState   *)
(*     handle, admits clients through the task_lock semaphore and talks to  *)
(*     the pool through the request queue and per-state channels           *)
(*     (specification Spec, and SpecFair with the pool task scheduled).    *)
(* The runtime is multi-threaded (main.rs: Builder::new_multi_thread) and  *)
(* every command runs in its own spawned task (routes/ws.rs), so the       *)
(* handlers interleave at every map access and at every await.             *)
(***************************************************************************)
EXTENDS Integers, Sequences, FiniteSets, TLC

VARIABLES
    \* ---- app.rs -------------------------------------------------------
    infer_states,   \* AppState.infer_states : id -> Option<State>
    appTask,        \* per command task: position in AppState::infer and its locals
    appDone,        \* history: appDone[k][t] = infer calls of task t completed on k
    appTomb,        \* history: ids removed by delete_state and not created since
    appDeleted,     \* history: some delete_state has succeeded
    appOps,         \* commands started so far on AppState
    \* ---- components/state/mod.rs ---------------------------------------
    states,         \* InnerStates.states : id -> NamedState (a handle number)
    handles,        \* every NamedState ever built: [valid, snapshot]
    permits,        \* task_lock: permits left in the semaphore
    waiters,        \* task_lock: FIFO queue of waiting acquire_many_owned calls
    task,           \* per command task: position in its handler and its locals
    tickets,        \* every InferTicket ever built
    request_queue,  \* InnerStates.request_queue : batches of InferRequest
    slots,          \* the pool's slots
    poolPc,         \* position of the pool loop
    tomb,           \* history: ids removed by delete_state and not inserted since
    ops,            \* commands started so far on InferStates
    \* ---- components/state_new/mod.rs -----------------------------------
    new_states,     \* InnerStates.states : id -> InferState (the tokens it has seen)
    new_task,       \* per command task: position in its handler and its locals
    new_reg,        \* history: ids added by a successful create / copy and not
                    \* removed by a successful delete since
    new_ops,        \* commands started so far on the state_new InferStates
    \* ---- commands/handle_infer.rs --------------------------------------
    gen,            \* per command task: position in the infer command and its locals
    genReqs,        \* infer commands started so far
    \* ---- components/infer/mod.rs, components/infer/reset.rs ------------
    registry,       \* the component maps: the (map, id) pairs registered
    pipe,           \* per generation task: its SamplePipeline and its position
    pipeOps,        \* registry operations and generations started so far
    reset_call,     \* the last call of ResetSetting::from_value: arguments and result
    \* ---- components/model.rs -------------------------------------------
    kern            \* one call of AxumModel::infer: the caller's tokens, the runs

appVars  == <<infer_states, appTask, appDone, appTomb, appDeleted, appOps>>
coreVars == <<states, handles, permits, waiters, task, tickets, request_queue,
              slots, poolPc, tomb, ops>>
newVars  == <<new_states, new_task, new_reg, new_ops>>
genVars  == <<gen, genReqs>>
pipeVars == <<registry, pipe, pipeOps, reset_call>>
kernVars == <<kern>>
vars     == <<infer_states, appTask, appDone, appTomb, appDeleted, appOps,
              states, handles, permits, waiters, task, tickets, request_queue,
              slots, poolPc, tomb, ops,
              new_states, new_task, new_reg, new_ops, gen, genReqs,
              registry, pipe, pipeOps, reset_call, kern>>

\* what the handlers of one part leave alone
notApp  == <<coreVars, newVars, genVars, pipeVars, kernVars>>
notCore == <<appVars, newVars, genVars, pipeVars, kernVars>>
notNew  == <<appVars, coreVars, genVars, pipeVars, kernVars>>
notPipe == <<appVars, coreVars, newVars, genVars, kernVars>>
notKern == <<appVars, coreVars, newVars, genVars, pipeVars>>

-----------------------------------------------------------------------------
(* Shared helpers *)

Range(s) == {s[i] : i \in 1..Len(s)}

RECURSIVE Count(_, _)
\* number of occurrences of x in the sequence s
Count(s, x) ==
    IF s = <<>> THEN 0
    ELSE (IF Head(s) = x THEN 1 ELSE 0) + Count(Tail(s), x)

\* the state ids the commands draw from
Ids == {"a", "b"}


\* DashMap::insert / DashMap::remove on a map modelled as a function
MapInsert(m, k, v) == [x \in (DOMAIN m) \cup {k} |-> IF x = k THEN v ELSE m[x]]

MapRemove(m, k) == [x \in (DOMAIN m) \ {k} |-> m[x]]

-----------------------------------------------------------------------------
(* app.rs: AppState                                                        *)

\* the command tasks that work on AppState
AppTasks == {1, 2}

\* longest state id list of one infer / update_state command
AppMaxBatch == 2

\* commands started in one run (bounds the model)
AppMaxOps == 5

\* Option<State>: None is a state not yet created by the pipeline
NoneState == [some |-> FALSE, st |-> <<>>]

SomeState(s) == [some |-> TRUE, st |-> s]

\* the token vector task t submits for every state it names
AppTokens(t) == <<t>>

AppKeyLists == UNION {[1..n -> Ids] : n \in 1..AppMaxBatch}

AppIdle == [pc |-> "idle", keys |-> <<>>, ctx |-> <<>>, res |-> "none"]

AppResult(t, r) == [appTask EXCEPT ![t] = [AppIdle EXCEPT !.res = r]]

\* InferRequest::send: the state returned for one InferContext is the submitted
\* state advanced by the submitted tokens
InferResultState(ctx, tokens) == SomeState(ctx.st \o tokens)

RECURSIVE WriteBack(_, _, _, _)
\* app.rs 122-129: the results are inserted under their keys, in order
WriteBack(m, keys, ctx, tokens) ==
    IF keys = <<>> THEN m
    ELSE WriteBack(MapInsert(m, Head(keys), InferResultState(Head(ctx), tokens)),
                   Tail(keys), Tail(ctx), tokens)

AppInit ==
    /\ infer_states = [x \in {} |-> NoneState]
    /\ appTask = [t \in AppTasks |-> AppIdle]
    /\ appDone = [k \in Ids |-> [t \in AppTasks |-> 0]]
    /\ appTomb = {}
    /\ appDeleted = FALSE
    /\ appOps = 0

\* a command task starts handling a command
AppStart(t) ==
    /\ appTask[t].pc = "idle"
    /\ appOps < AppMaxOps
    /\ appOps' = appOps + 1

\* AppState::create_state
App_create_state(t, id) ==
    /\ UNCHANGED notApp
    /\ AppStart(t)
    /\ IF id \in DOMAIN infer_states
       THEN /\ appTask' = AppResult(t, "State already exists!")
            /\ UNCHANGED <<infer_states, appDone, appTomb>>
       ELSE /\ infer_states' = MapInsert(infer_states, id, NoneState)
            /\ appTask' = AppResult(t, "ok")
            /\ appDone' = [appDone EXCEPT ![id] = [u \in AppTasks |-> 0]]
            /\ appTomb' = appTomb \ {id}
    /\ UNCHANGED appDeleted

\* AppState::copy_state
App_copy_state(t, src, dst) ==
    /\ UNCHANGED notApp
    /\ AppStart(t)
    /\ IF dst \in DOMAIN infer_states
       THEN /\ appTask' = AppResult(t, "Destination state id already exists!")
            /\ UNCHANGED <<infer_states, appDone, appTomb>>
       ELSE IF src \notin DOMAIN infer_states
       THEN /\ appTask' = AppResult(t, "State doesn't exist!")
            /\ UNCHANGED <<infer_states, appDone, appTomb>>
       ELSE /\ infer_states' = MapInsert(infer_states, dst, infer_states[src])
            /\ appTask' = AppResult(t, "ok")
            /\ appDone' = [appDone EXCEPT ![dst] = appDone[src]]
            /\ appTomb' = appTomb \ {dst}
    /\ UNCHANGED appDeleted

\* AppState::delete_state
App_delete_state(t, id) ==
    /\ UNCHANGED notApp
    /\ AppStart(t)
    /\ IF id \in DOMAIN infer_states
       THEN /\ infer_states' = MapRemove(infer_states, id)
            /\ appTask' = AppResult(t, "ok")
            /\ appTomb' = appTomb \cup {id}
            /\ appDeleted' = TRUE
       ELSE /\ appTask' = AppResult(t, "State doesn't exist!")
            /\ UNCHANGED <<infer_states, appTomb, appDeleted>>
    /\ UNCHANGED appDone

\* AppState::infer up to the await of InferRequest::send (app.rs 102-120), behind
\* the has_state check of the infer command (handle_infer.rs 127-129): the
\* stored states are cloned into the request
App_infer_send(t, keys) ==
    /\ UNCHANGED notApp
    /\ AppStart(t)
    /\ IF \E i \in 1..Len(keys) : keys[i] \notin DOMAIN infer_states
       THEN appTask' = AppResult(t, "State doesn't exist!")
       ELSE appTask' = [appTask EXCEPT ![t] =
               [pc |-> "infer", keys |-> keys,
                ctx |-> [i \in 1..Len(keys) |-> infer_states[keys[i]]],
                res |-> "none"]]
    /\ UNCHANGED <<infer_states, appDone, appTomb, appDeleted>>

\* AppState::infer after the await (app.rs 122-129): every returned state is
\* inserted under its key
App_infer_recv(t) ==
    /\ UNCHANGED notApp
    /\ appTask[t].pc = "infer"
    /\ infer_states' = WriteBack(infer_states, appTask[t].keys, appTask[t].ctx,
                                 AppTokens(t))
    /\ appDone' = [k \in Ids |-> IF k \in Range(appTask[t].keys)
                                 THEN [appDone[k] EXCEPT ![t] = @ + 1]
                                 ELSE appDone[k]]
    /\ appTask' = AppResult(t, "ok")
    /\ UNCHANGED <<appTomb, appDeleted, appOps>>

AppNext ==
    \/ \E t \in AppTasks, id \in Ids : App_create_state(t, id)
    \/ \E t \in AppTasks, src \in Ids, dst \in Ids : App_copy_state(t, src, dst)
    \/ \E t \in AppTasks, id \in Ids : App_delete_state(t, id)
    \/ \E t \in AppTasks, keys \in AppKeyLists : App_infer_send(t, keys)
    \/ \E t \in AppTasks : App_infer_recv(t)

-----------------------------------------------------------------------------
(* components/state/mod.rs: InferStates, InferTicket; the pool behind them  *)

\* the command tasks that work on InferStates
Tasks == {1, 2, 3}

\* config.model.get_max_concurrency(): permits of task_lock
MaxConcurrency == 2

\* config.model.get_batch_size(): slots of the pool
BatchSize == 2

\* commands started in one run (bounds the model)
MaxOps == 4

\* infer calls made on one ticket (bounds the model)
MaxInfers == 1

\* infer calls made on one ticket in a generation of several steps (bounds
\* the model)
MaxInfersSeq == 3

\* the state id lists of create_ticket: as many states as the semaphore can
\* ever grant permits for
IdLists == UNION {[1..n -> Ids] : n \in 1..MaxConcurrency}

SlotIds == 0..(BatchSize - 1)

\* faulty variant: a semaphore created with one permit too many
TaskLockPermits_over == MaxConcurrency + 1

\* Semaphore::new(config.model.get_max_concurrency())
TaskLockPermits == MaxConcurrency

\* faulty variant: acquire_owned(), one permit whatever the number of states
PermitCount_one(hs) == 1

\* acquire_many_owned(states.len()): the permits the returned
\* OwnedSemaphorePermit carries
PermitCount(hs) == Len(hs)

\* ref is the key of the map entry the task holds a Ref to, "" when it holds
\* none
TaskIdle(r) ==
    [pc |-> "idle", id |-> "", src |-> "", hs |-> <<>>, upd |-> FALSE,
     tk |-> 0, ref |-> "", res |-> r]

SetTask(t, r) == [task EXCEPT ![t] = r]

\* NamedState::new: an empty snapshot, valid, named by its id (origin is
\* history: the id the handle was cloned from, none here)
NamedState_new(id) == [id |-> id, valid |-> TRUE, snapshot |-> <<>>, origin |-> ""]

\* NamedState::clone_new: an independent handle with a copy of the snapshot
NamedState_clone_new(h, dst) ==
    [id |-> dst, valid |-> TRUE, snapshot |-> h.snapshot, origin |-> h.id]

\* NamedState::invalidate
NamedState_invalidate(h) == [h EXCEPT !.valid = FALSE]

EmptySlot == [bound |-> FALSE, h |-> 0, tk |-> 0, i |-> 0, buf |-> <<>>, gpu |-> <<>>]

\* InferTicket::create_ticket: one token channel and one logits channel per
\* state, the permit stored in the ticket; the InferRequests of the ticket are
\* (hs[i], token receiver i, logits sender i, upd[i])
InferTicket_create_ticket(t, hs, upd, permit) ==
    [owner |-> t, hs |-> hs, upd |-> upd, permit |-> permit, live |-> TRUE,
     posted |-> FALSE,
     tok |-> [i \in 1..Len(hs) |-> <<>>],
     log |-> [i \in 1..Len(hs) |-> <<>>],
     sent |-> 0, recvd |-> 0,
     stale |-> [i \in 1..Len(hs) |-> FALSE],
     sentInvalid |-> FALSE,
     got |-> [i \in 1..Len(hs) |-> <<>>]]

\* create_ticket 126-133 for the caller at the head of the queue: the permit
\* leaves the semaphore and the ticket is built around it
Grant(st, t) ==
    LET n  == PermitCount(st.ta[t].hs)
        tk == Len(st.tk) + 1
    IN [p  |-> st.p - n,
        w  |-> Tail(st.w),
        tk |-> Append(st.tk,
                 InferTicket_create_ticket(t, st.ta[t].hs, st.ta[t].upd, n)),
        ta |-> [st.ta EXCEPT ![t].pc = "post", ![t].tk = tk]]

RECURSIVE Serve(_)
\* faulty variant of Serve: any waiting call whose request fits is served,
\* whatever its place in the queue
Serve_barging(st) ==
    IF \E i \in 1..Len(st.w) : st.p >= PermitCount(st.ta[st.w[i]].hs)
    THEN LET i == CHOOSE j \in 1..Len(st.w) :
                      /\ st.p >= PermitCount(st.ta[st.w[j]].hs)
                      /\ \A l \in 1..(j - 1) : st.p < PermitCount(st.ta[st.w[l]].hs)
             w  == <<st.w[i]>> \o SubSeq(st.w, 1, i - 1) \o SubSeq(st.w, i + 1, Len(st.w))
         IN Serve(Grant([st EXCEPT !.w = w], st.w[i]))
    ELSE st

\* the semaphore hands permits out in the order they were requested: the call at
\* the head of the queue is served as soon as its whole request fits
Serve(st) ==
    IF st.w /= <<>> /\ st.p >= PermitCount(st.ta[Head(st.w)].hs)
    THEN Serve(Grant(st, Head(st.w)))
    ELSE st

\* faulty variant: the permit is forgotten, nothing comes back at the drop
DropRelease_leak(ticket) == 0

\* what dropping the _permit of a ticket gives back to the semaphore
DropRelease(ticket) == ticket.permit

CoreInit ==
    /\ states = [x \in {} |-> 0]
    /\ handles = <<>>
    /\ permits = TaskLockPermits
    /\ waiters = <<>>
    /\ task = [t \in Tasks |-> TaskIdle("none")]
    /\ tickets = <<>>
    /\ request_queue = <<>>
    /\ slots = [s \in SlotIds |-> EmptySlot]
    /\ poolPc = "run"
    /\ tomb = {}
    /\ ops = 0

\* a Ref read-locks the shard of its key, and an insert or a remove write-locks
\* the shard of its own: in the worst case, all keys in one shard, a write of
\* task t waits for as long as another task holds a Ref
Guarded(t) == \E u \in Tasks \ {t} : task[u].ref /= ""

\* a command task starts handling a command
Start(t) ==
    /\ task[t].pc = "idle"
    /\ ops < MaxOps
    /\ ops' = ops + 1

\* InferStates::create_state, the contains_key check (139-141)
create_state_check(t, id) ==
    /\ UNCHANGED notCore
    /\ Start(t)
    /\ IF id \in DOMAIN states
       THEN task' = SetTask(t, TaskIdle("State already exists!"))
       ELSE task' = SetTask(t, [TaskIdle("none") EXCEPT
                        !.pc = "create_insert", !.id = id])
    /\ UNCHANGED <<states, handles, permits, waiters, tickets, request_queue,
                   slots, poolPc, tomb>>

\* faulty variant of create_state's insert: an id that was registered before
\* gets its old handle back
create_state_insert_reuse(t) ==
    /\ UNCHANGED notCore
    /\ task[t].pc = "create_insert"
    /\ LET old == {g \in 1..Len(handles) : handles[g].id = task[t].id}
       IN IF old = {}
          THEN /\ handles' = Append(handles, NamedState_new(task[t].id))
               /\ states' = MapInsert(states, task[t].id, Len(handles) + 1)
          ELSE LET g == CHOOSE x \in old : \A y \in old : y <= x
               IN /\ handles' = [handles EXCEPT ![g].valid = TRUE]
                  /\ states' = MapInsert(states, task[t].id, g)
    /\ tomb' = tomb \ {task[t].id}
    /\ task' = SetTask(t, TaskIdle("ok"))
    /\ UNCHANGED <<permits, waiters, tickets, request_queue, slots, poolPc, ops>>

\* InferStates::create_state, the insert (142-151)
create_state_insert(t) ==
    /\ UNCHANGED notCore
    /\ task[t].pc = "create_insert"
    /\ ~Guarded(t)
    /\ handles' = Append(handles, NamedState_new(task[t].id))
    /\ states' = MapInsert(states, task[t].id, Len(handles) + 1)
    /\ tomb' = tomb \ {task[t].id}
    /\ task' = SetTask(t, TaskIdle("ok"))
    /\ UNCHANGED <<permits, waiters, tickets, request_queue, slots, poolPc, ops>>

\* faulty variant of delete_state: the handle is invalidated and stays in the map
delete_state_keep(t, id) ==
    /\ UNCHANGED notCore
    /\ Start(t)
    /\ IF id \in DOMAIN states
       THEN /\ handles' = [handles EXCEPT ![states[id]] = NamedState_invalidate(@)]
            /\ tomb' = tomb \cup {id}
            /\ task' = SetTask(t, TaskIdle("ok"))
            /\ UNCHANGED states
       ELSE /\ task' = SetTask(t, TaskIdle("State ID does not exist!"))
            /\ UNCHANGED <<states, handles, tomb>>
    /\ UNCHANGED <<permits, waiters, tickets, request_queue, slots, poolPc>>

\* InferStates::delete_state
delete_state(t, id) ==
    /\ UNCHANGED notCore
    /\ Start(t)
    /\ ~Guarded(t)
    /\ IF id \in DOMAIN states
       THEN /\ states' = MapRemove(states, id)
            /\ handles' = [handles EXCEPT ![states[id]] = NamedState_invalidate(@)]
            /\ tomb' = tomb \cup {id}
            /\ task' = SetTask(t, TaskIdle("ok"))
       ELSE /\ task' = SetTask(t, TaskIdle("State ID does not exist!"))
            /\ UNCHANGED <<states, handles, tomb>>
    /\ UNCHANGED <<permits, waiters, tickets, request_queue, slots, poolPc>>

\* what eviction or sync leaves in the CPU snapshot of the handle of a slot: the
\* slot's state when the request asked for the snapshot to be updated
BackToCpu(hs, slot, tks) ==
    IF tks[slot.tk].upd
    THEN [hs EXCEPT ![slot.h].snapshot = slot.gpu]
    ELSE hs

RECURSIVE BackAll(_, _, _, _)
\* BackToCpu for every slot of the set S, lowest slot first
BackAll(hs, S, sl, tks) ==
    IF S = {} THEN hs
    ELSE LET s == CHOOSE x \in S : \A y \in S : x <= y
         IN BackAll(BackToCpu(hs, sl[s], tks), S \ {s}, sl, tks)

\* faulty variant of copy_state_check: the Ref of src is taken before the sync
\* and held across it
copy_state_check_hold(t, src, dst) ==
    /\ UNCHANGED notCore
    /\ Start(t)
    /\ IF dst \in DOMAIN states
       THEN task' = SetTask(t, TaskIdle("Destination state already exists!"))
       ELSE IF src \notin DOMAIN states
       THEN task' = SetTask(t, TaskIdle("Source state id doesn't exist!"))
       ELSE task' = SetTask(t, [TaskIdle("none") EXCEPT
                        !.pc = "copy_sync", !.src = src, !.id = dst,
                        !.ref = src])
    /\ UNCHANGED <<states, handles, permits, waiters, tickets, request_queue,
                   slots, poolPc, tomb>>

\* InferStates::copy_state, the two contains_key checks (155-160): the guards of
\* the two lookups are dropped with the tests, no Ref is held when the call
\* goes on to the sync
copy_state_check(t, src, dst) ==
    /\ UNCHANGED notCore
    /\ Start(t)
    /\ IF dst \in DOMAIN states
       THEN task' = SetTask(t, TaskIdle("Destination state already exists!"))
       ELSE IF src \notin DOMAIN states
       THEN task' = SetTask(t, TaskIdle("Source state id doesn't exist!"))
       ELSE task' = SetTask(t, [TaskIdle("none") EXCEPT
                        !.pc = "copy_sync", !.src = src, !.id = dst])
    /\ UNCHANGED <<states, handles, permits, waiters, tickets, request_queue,
                   slots, poolPc, tomb>>

\* InferStates::copy_state, pool.sync(src) (162): once nothing is pending for
\* the state, what the pool holds of it is backed to its CPU snapshot
copy_state_sync(t) ==
    /\ UNCHANGED notCore
    /\ task[t].pc = "copy_sync"
    /\ LET S == {s \in SlotIds : /\ slots[s].bound
                                 /\ task[t].src \in DOMAIN states
                                 /\ slots[s].h = states[task[t].src]}
       IN /\ \A s \in S : slots[s].buf = <<>> /\ tickets[slots[s].tk].tok[slots[s].i] = <<>>
          /\ handles' = BackAll(handles, S, slots, tickets)
    /\ task' = [task EXCEPT ![t].pc = "copy_insert"]
    /\ UNCHANGED <<states, permits, waiters, tickets, request_queue, slots,
                   poolPc, tomb, ops>>

\* faulty variant of the insert: dst is given the handle of src itself, as
\* clone_shallow in place of clone_new would share it
copy_state_insert_shallow(t) ==
    /\ UNCHANGED notCore
    /\ task[t].pc = "copy_insert"
    /\ IF task[t].src \in DOMAIN states
       THEN /\ states' = MapInsert(states, task[t].id, states[task[t].src])
            /\ tomb' = tomb \ {task[t].id}
            /\ task' = SetTask(t, TaskIdle("ok"))
            /\ UNCHANGED handles
       ELSE /\ task' = SetTask(t, TaskIdle("panic"))
            /\ UNCHANGED <<states, handles, tomb>>
    /\ UNCHANGED <<permits, waiters, tickets, request_queue, slots, poolPc, ops>>

\* InferStates::copy_state, get(src).unwrap(), clone_new and insert (163-170)
copy_state_insert(t) ==
    /\ UNCHANGED notCore
    /\ task[t].pc = "copy_insert"
    /\ ~Guarded(t)
    /\ IF task[t].src \in DOMAIN states
       THEN /\ handles' = Append(handles,
                    NamedState_clone_new(handles[states[task[t].src]], task[t].id))
            /\ states' = MapInsert(states, task[t].id, Len(handles) + 1)
            /\ tomb' = tomb \ {task[t].id}
            /\ task' = SetTask(t, TaskIdle("ok"))
       ELSE /\ task' = SetTask(t, TaskIdle("panic"))
            /\ UNCHANGED <<states, handles, tomb>>
    /\ UNCHANGED <<permits, waiters, tickets, request_queue, slots, poolPc, ops>>

\* InferStates::create_ticket up to the first poll of acquire_many_owned
\* (115-132): the handles are resolved, then the call joins the queue of the
\* semaphore and is served at once when its request fits
create_ticket(t, ids, upd) ==
    /\ UNCHANGED notCore
    /\ Start(t)
    /\ IF \E i \in 1..Len(ids) : ids[i] \notin DOMAIN states
       THEN /\ task' = SetTask(t, TaskIdle("State not found!"))
            /\ UNCHANGED <<permits, waiters, tickets>>
       ELSE LET hs == [i \in 1..Len(ids) |-> states[ids[i]]]
                 st == Serve([p  |-> permits,
                              w  |-> Append(waiters, t),
                              tk |-> tickets,
                              ta |-> SetTask(t, [TaskIdle("none") EXCEPT
                                        !.pc = "wait", !.hs = hs, !.upd = upd])])
            IN /\ permits' = st.p
               /\ waiters' = st.w
               /\ tickets' = st.tk
               /\ task' = st.ta
    /\ UNCHANGED <<states, handles, request_queue, slots, poolPc, tomb>>

\* InferStates::create_ticket, request_queue.send(request) and return (134-135)
create_ticket_post(t) ==
    /\ UNCHANGED notCore
    /\ task[t].pc = "post"
    /\ poolPc /= "failed"
    /\ LET tk == task[t].tk
       IN /\ request_queue' = Append(request_queue, tk)
          /\ tickets' = [tickets EXCEPT
                 ![tk].posted = TRUE,
                 ![tk].stale = [i \in 1..Len(tickets[tk].hs) |->
                                   ~handles[tickets[tk].hs[i]].valid]]
    /\ task' = [task EXCEPT ![t].pc = "ticket"]
    /\ UNCHANGED <<states, handles, permits, waiters, slots, poolPc, tomb, ops>>

\* the token vector that the n-th infer call on ticket tk submits for each of
\* its states
TokensOf(tk, n) == <<10 * tk + n>>

\* InferTicket::infer, the sends (71-73): one token vector per state; a caller
\* makes at most n calls on its ticket
InferSend(t, n) ==
    /\ UNCHANGED notCore
    /\ task[t].pc = "ticket"
    /\ poolPc /= "failed"
    /\ LET tk == task[t].tk
       IN /\ tickets[tk].sent < n
          /\ tickets' = [tickets EXCEPT
                 ![tk].tok = [i \in 1..Len(tickets[tk].hs) |->
                                 Append(tickets[tk].tok[i],
                                        TokensOf(tk, tickets[tk].sent + 1))],
                 ![tk].sent = @ + 1,
                 ![tk].got = [i \in 1..Len(tickets[tk].hs) |-> <<>>],
                 ![tk].sentInvalid =
                     @ \/ \E i \in 1..Len(tickets[tk].hs) :
                              ~handles[tickets[tk].hs[i]].valid]
    /\ task' = [task EXCEPT ![t].pc = "await"]
    /\ UNCHANGED <<states, handles, permits, waiters, request_queue, slots,
                   poolPc, tomb, ops>>

InferTicket_infer_send(t) == InferSend(t, MaxInfers)

\* the same call in a generation of several steps
InferTicket_infer_send_seq(t) == InferSend(t, MaxInfersSeq)

\* faulty variant of the join: the logits are read and left in the channel
InferTicket_infer_recv_peek(t) ==
    /\ UNCHANGED notCore
    /\ task[t].pc = "await"
    /\ LET tk == task[t].tk
       IN /\ \A i \in 1..Len(tickets[tk].hs) : tickets[tk].log[i] /= <<>>
          /\ tickets' = [tickets EXCEPT
                 ![tk].got = [i \in 1..Len(tickets[tk].hs) |->
                                 Head(tickets[tk].log[i])],
                 ![tk].recvd = @ + 1]
    /\ task' = [task EXCEPT ![t].pc = "ticket", ![t].res = "ok"]
    /\ UNCHANGED <<states, handles, permits, waiters, request_queue, slots,
                   poolPc, tomb, ops>>

\* InferTicket::infer, the join over the logits receivers (75-79)
InferTicket_infer_recv(t) ==
    /\ UNCHANGED notCore
    /\ task[t].pc = "await"
    /\ LET tk == task[t].tk
       IN /\ \A i \in 1..Len(tickets[tk].hs) : tickets[tk].log[i] /= <<>>
          /\ tickets' = [tickets EXCEPT
                 ![tk].log = [i \in 1..Len(tickets[tk].hs) |->
                                 Tail(tickets[tk].log[i])],
                 ![tk].got = [i \in 1..Len(tickets[tk].hs) |->
                                 Head(tickets[tk].log[i])],
                 ![tk].recvd = @ + 1]
    /\ task' = [task EXCEPT ![t].pc = "ticket", ![t].res = "ok"]
    /\ UNCHANGED <<states, handles, permits, waiters, request_queue, slots,
                   poolPc, tomb, ops>>

\* the future of InferTicket::infer is dropped while it awaits the logits
\* (75-76): the tokens are sent, nothing is received, the ticket stays
InferTicket_infer_cancel(t) ==
    /\ UNCHANGED notCore
    /\ task[t].pc = "await"
    /\ task' = [task EXCEPT ![t].pc = "ticket", ![t].res = "cancelled"]
    /\ UNCHANGED <<states, handles, permits, waiters, tickets, request_queue,
                   slots, poolPc, tomb, ops>>

\* the ticket of task t goes out of scope: its channels close and its permit
\* returns to the semaphore, which serves the queue (InferTicket 31-37)
DropTicket(t, r) ==
    LET tk == task[t].tk
        st == Serve([p  |-> permits + DropRelease(tickets[tk]),
                     w  |-> waiters,
                     tk |-> [tickets EXCEPT
                               ![tk].live = FALSE, ![tk].permit = 0,
                               ![tk].log = [i \in 1..Len(tickets[tk].hs) |-> <<>>],
                               ![tk].sent = 0, ![tk].recvd = 0,
                               ![tk].sentInvalid = FALSE,
                               ![tk].got = [i \in 1..Len(tickets[tk].hs) |-> <<>>]],
                     ta |-> SetTask(t, TaskIdle(r))])
    IN /\ permits' = st.p
       /\ waiters' = st.w
       /\ tickets' = st.tk
       /\ task' = st.ta

\* the caller is done with its ticket
InferTicket_drop(t) ==
    /\ UNCHANGED notCore
    /\ task[t].pc = "ticket"
    /\ DropTicket(t, "ok")
    /\ UNCHANGED <<states, handles, request_queue, slots, poolPc, tomb, ops>>

\* the unwraps of create_ticket (134) and InferTicket::infer (72, 78) once the
\* pool task has ended: the caller panics and unwinding drops its ticket
pool_gone_panic(t) ==
    /\ UNCHANGED notCore
    /\ poolPc = "failed"
    /\ \/ task[t].pc \in {"post", "ticket"}
       \/ /\ task[t].pc = "await"
          /\ \E i \in 1..Len(tickets[task[t].tk].hs) : tickets[task[t].tk].log[i] = <<>>
    /\ DropTicket(t, "panic")
    /\ UNCHANGED <<states, handles, request_queue, slots, poolPc, tomb, ops>>

-----------------------------------------------------------------------------
(* The pool loop (components/state/pool.rs), after section 4.2 of the       *)
(* specification. One iteration: admit the next batch of requests, drain    *)
(* the token channels and evict closed idle slots, run one forward pass and *)
(* send the logits. The loop is one task and its iteration only meets the   *)
(* callers through the channels, so an iteration is one step.               *)

FreeSlots(sl) == {s \in SlotIds : ~sl[s].bound}

BoundSlots(sl) == {s \in SlotIds : sl[s].bound}

RECURSIVE Flatten(_)
\* the token vectors waiting in a channel, concatenated in arrival order
Flatten(msgs) == IF msgs = <<>> THEN <<>> ELSE Head(msgs) \o Flatten(Tail(msgs))

RECURSIVE Bind(_, _, _)
\* the requests i.. of ticket tk take the lowest free slots, each loaded with
\* the CPU snapshot of its handle
Bind(sl, tk, i) ==
    IF i > Len(tickets[tk].hs) THEN sl
    ELSE LET F == FreeSlots(sl)
             s == CHOOSE x \in F : \A y \in F : x <= y
         IN Bind([sl EXCEPT ![s] = [bound |-> TRUE, h |-> tickets[tk].hs[i],
                                    tk |-> tk, i |-> i, buf |-> <<>>,
                                    gpu |-> handles[tickets[tk].hs[i]].snapshot]],
                 tk, i + 1)

\* step 1: whether the batch at the head of the queue fits the free slots
Fits == Cardinality(FreeSlots(slots)) >= Len(tickets[Head(request_queue)].hs)

\* step 1: the slots once the batch at the head of the queue, if any, is admitted
Admitted == IF request_queue = <<>> THEN slots ELSE Bind(slots, Head(request_queue), 1)

\* step 2: the pending buffer of slot s once its channel has been drained
Drained(sl, s) == sl[s].buf \o Flatten(tickets[sl[s].tk].tok[sl[s].i])

\* step 2: slot s is evicted when its channel is closed and nothing is pending
Evictable(sl, s) ==
    /\ sl[s].bound
    /\ ~tickets[sl[s].tk].live
    /\ Drained(sl, s) = <<>>

\* step 2: the slots after draining and eviction
AfterDrain(sl) ==
    [s \in SlotIds |->
        IF ~sl[s].bound \/ Evictable(sl, s) THEN EmptySlot
        ELSE [sl[s] EXCEPT !.buf = Drained(sl, s)]]

\* steps 3 and 4: the forward pass consumes every pending buffer
Forwarded(sl) ==
    [s \in SlotIds |->
        IF sl[s].bound /\ sl[s].buf /= <<>>
        THEN [sl[s] EXCEPT !.gpu = @ \o sl[s].buf, !.buf = <<>>]
        ELSE sl[s]]

\* the channels of the tickets after an iteration that bound the slots sl1 and
\* ran the forward pass on the slots sl2: drained token channels are empty, and
\* every slot that consumed tokens has its logits sent (a closed logits channel
\* takes none)
Channels(sl1, sl2) ==
    [k \in 1..Len(tickets) |->
        [tickets[k] EXCEPT
            !.tok = [i \in 1..Len(tickets[k].hs) |->
                IF \E s \in SlotIds : sl1[s].bound /\ sl1[s].tk = k /\ sl1[s].i = i
                THEN <<>> ELSE tickets[k].tok[i]],
            !.log = [i \in 1..Len(tickets[k].hs) |->
                IF /\ tickets[k].live
                   /\ \E s \in SlotIds : /\ sl2[s].bound /\ sl2[s].tk = k
                                         /\ sl2[s].i = i /\ sl2[s].buf /= <<>>
                THEN LET s == CHOOSE x \in SlotIds :
                                  /\ sl2[x].bound /\ sl2[x].tk = k /\ sl2[x].i = i
                     IN Append(tickets[k].log[i], sl2[s].gpu \o sl2[s].buf)
                ELSE tickets[k].log[i]]]]

\* one iteration of the pool loop
pool_cycle ==
    /\ UNCHANGED notCore
    /\ UNCHANGED <<states, permits, waiters, task, poolPc, tomb, ops>>
    /\ poolPc = "run"
    /\ request_queue /= <<>> \/ BoundSlots(slots) /= {}
    /\ request_queue /= <<>> => Fits
    /\ LET sl1 == Admitted
           sl2 == AfterDrain(sl1)
       IN /\ handles' = BackAll(handles, {s \in SlotIds : Evictable(sl1, s)},
                                sl1, tickets)
          /\ slots' = Forwarded(sl2)
          /\ tickets' = Channels(sl1, sl2)
    /\ request_queue' = IF request_queue = <<>> THEN <<>> ELSE Tail(request_queue)

\* step 1 when the batch does not fit the free slots: the pool task ends
pool_admit_fail ==
    /\ UNCHANGED notCore
    /\ UNCHANGED <<states, handles, permits, waiters, task, tickets, slots,
                   tomb, ops>>
    /\ poolPc = "run"
    /\ request_queue /= <<>>
    /\ ~Fits
    /\ poolPc' = "failed"
    /\ request_queue' = Tail(request_queue)

PoolStep == pool_cycle \/ pool_admit_fail

-----------------------------------------------------------------------------
(* components/state_new/mod.rs: the registry that hands out InferState      *)
(* values to one-shot infer requests                                        *)

\* tasks that run state_new commands
NewTasks == {1, 2}

\* commands started on the state_new registry in one behaviour
NewMaxOps == 4

\* InferState::new: a state that has seen no tokens
InferState_new(id) == [id |-> id, st |-> <<>>]

\* InferState::clone_new: the contents of the source under another id
InferState_clone_new(s, dst) == [id |-> dst, st |-> s.st]

NewIdle == [pc |-> "idle", id |-> "", src |-> "", ids |-> <<>>, res |-> "none"]

NewResult(t, r) == [new_task EXCEPT ![t] = [NewIdle EXCEPT !.res = r]]

NewInit ==
    /\ new_states = [x \in {} |-> InferState_new(x)]
    /\ new_task = [t \in NewTasks |-> NewIdle]
    /\ new_reg = {}
    /\ new_ops = 0

NewStart(t) ==
    /\ new_task[t].pc = "idle"
    /\ new_ops < NewMaxOps
    /\ new_ops' = new_ops + 1

\* create_state, the contains_key test: "State already exists!" or go on
New_create_state_check(t, id) ==
    /\ UNCHANGED notNew
    /\ NewStart(t)
    /\ IF id \in DOMAIN new_states
       THEN new_task' = NewResult(t, "State already exists!")
       ELSE new_task' = [new_task EXCEPT ![t] = [NewIdle EXCEPT !.pc = "create_insert", !.id = id]]
    /\ UNCHANGED <<new_states, new_reg>>

\* create_state, the insert of a new InferState
New_create_state_insert(t) ==
    /\ UNCHANGED notNew
    /\ new_task[t].pc = "create_insert"
    /\ new_states' = MapInsert(new_states, new_task[t].id, InferState_new(new_task[t].id))
    /\ new_reg' = new_reg \cup {new_task[t].id}
    /\ new_task' = NewResult(t, "ok")
    /\ UNCHANGED new_ops

\* copy_state, the two contains_key tests
New_copy_state_check(t, src, dst) ==
    /\ UNCHANGED notNew
    /\ NewStart(t)
    /\ IF dst \in DOMAIN new_states
       THEN new_task' = NewResult(t, "Destination state already exists!")
       ELSE IF src \notin DOMAIN new_states
       THEN new_task' = NewResult(t, "Source state id doesn't exist!")
       ELSE new_task' = [new_task EXCEPT ![t] =
                            [NewIdle EXCEPT !.pc = "copy_insert", !.id = dst, !.src = src]]
    /\ UNCHANGED <<new_states, new_reg>>

\* copy_state inside block_in_place: get(src).unwrap() panics when the source
\* has been removed since the test; otherwise the clone is inserted under dst
New_copy_state_insert(t) ==
    /\ UNCHANGED notNew
    /\ new_task[t].pc = "copy_insert"
    /\ IF new_task[t].src \in DOMAIN new_states
       THEN /\ new_states' = MapInsert(new_states, new_task[t].id,
                                InferState_clone_new(new_states[new_task[t].src], new_task[t].id))
            /\ new_reg' = new_reg \cup {new_task[t].id}
            /\ new_task' = NewResult(t, "ok")
       ELSE /\ new_task' = NewResult(t, "panic")
            /\ UNCHANGED <<new_states, new_reg>>
    /\ UNCHANGED new_ops

\* delete_state: remove, "State ID does not exist!" when nothing was there
New_delete_state(t, id) ==
    /\ UNCHANGED notNew
    /\ NewStart(t)
    /\ IF id \in DOMAIN new_states
       THEN /\ new_states' = MapRemove(new_states, id)
            /\ new_reg' = new_reg \ {id}
            /\ new_task' = NewResult(t, "ok")
       ELSE /\ new_task' = NewResult(t, "State ID does not exist!")
            /\ UNCHANGED <<new_states, new_reg>>

\* get_state: entry(id).or_insert_with(InferState::new): an absent id gets a
\* new entry, and the entry is returned
RECURSIVE get_state(_, _)
get_state(m, ids) ==
    IF ids = <<>> THEN m
    ELSE get_state(IF Head(ids) \in DOMAIN m THEN m
                   ELSE MapInsert(m, Head(ids), InferState_new(Head(ids))),
                   Tail(ids))

\* infer up to request_queue.send: every id goes through get_state, then the
\* requests are posted with one oneshot channel each
New_infer_send(t, ids) ==
    /\ UNCHANGED notNew
    /\ NewStart(t)
    /\ new_states' = get_state(new_states, ids)
    /\ new_task' = [new_task EXCEPT ![t] = [NewIdle EXCEPT !.pc = "infer_await", !.ids = ids]]
    /\ UNCHANGED new_reg

\* infer after join_all: the pool has answered every oneshot channel, or has
\* dropped a sender ("Error while receiving message!")
New_infer_recv(t, answered) ==
    /\ UNCHANGED notNew
    /\ new_task[t].pc = "infer_await"
    /\ new_task' = NewResult(t, IF answered THEN "ok" ELSE "Error while receiving message!")
    /\ UNCHANGED <<new_states, new_reg, new_ops>>

-----------------------------------------------------------------------------
(* commands/handle_infer.rs: the infer command, a generation loop over      *)
(* AppState::infer                                                          *)

\* tasks that run an infer command
GenTasks == {1}

\* infer commands started in one behaviour
GenMaxReqs == 1

\* calls of infer_and_sample in one command before the model stops the loop
GenMaxSteps == 3

\* tokens left undecoded in out_tokens before the model stops sampling
GenMaxPending == 2

\* the token count at which the loop ends (198)
GenTarget == 10

\* what the sampler may return: token 1 decodes on its own, token 2 is half
\* of a character and decodes only next to another token 2
GenTokens == {1, 2}

\* the prompt of the command after helpers::to_tokens, one copy per state
GenPrompt == <<1, 2, 2>>

\* results of an update of the transformers or of the sampler
GenOutcomes == {"ok", "exhaustion", "error"}

\* the states, tokens and transformers arrays of a payload (9-16): up to
\* AppMaxBatch entries each, a token list is empty or the prompt, a transformer
\* list is empty or names one transformer
GenStateLists == UNION {[1..n -> Ids] : n \in 0..AppMaxBatch}

GenTokenLists == UNION {[1..n -> {<<>>, GenPrompt}] : n \in 0..AppMaxBatch}

GenTransformerLists == UNION {[1..n -> {<<>>, <<"t">>}] : n \in 0..AppMaxBatch}

\* what the lookups at 131-146 find: every component and token is known, a
\* transformer id is not registered, the sampler id is not registered, or a
\* token value cannot be converted
GenLookups == {"ok", "One or more transformer ids not exist!",
               "Sampler id does not exist!", "error"}

ExhaustedAtStart ==
    "Sampler/transformer is exhausted at the start, inference won't continue."

NoResponse == [value |-> <<>>, last_token |-> 0, inferred_tokens |-> 0]

\* InferResponse (103-108, 229-233)
InferResponse(g) ==
    [value |-> g.result, last_token |-> g.last_token, inferred_tokens |-> g.inferred]

\* locals of the command; sent and wrote count the requests it has posted to
\* the pool and the write-backs it has made, permits what it has asked of
\* batch_request, updated whether it has updated a component, malformed
\* whether its payload had arrays of different lengths or an empty token list,
\* sampled the tokens that sample_token has returned,
\* steps the calls of
\* infer_and_sample it has finished, exh and err record how such a call was
\* interrupted
GenIdle ==
    [pc |-> "idle", states |-> <<>>, upd |-> FALSE, roe |-> FALSE, first |-> TRUE,
     tokens |-> <<>>, ctx |-> <<>>, out |-> <<>>, last_token |-> 0, inferred |-> 1,
     result |-> <<>>, reset |-> FALSE, steps |-> 0, sent |-> 0, wrote |-> 0,
     permits |-> 0, updated |-> FALSE, malformed |-> FALSE, sampled |-> <<>>,
     exh |-> "none", err |-> FALSE, res |-> "none", resp |-> NoResponse]

GenInit ==
    /\ gen = [t \in GenTasks |-> GenIdle]
    /\ genReqs = 0

\* the command returns Err(msg)
GenFail(g, msg) ==
    [g EXCEPT !.pc = "idle", !.res = msg, !.resp = NoResponse, !.permits = 0]

\* the command returns Ok(InferResponse)
GenOk(g) ==
    [g EXCEPT !.pc = "idle", !.res = "ok", !.resp = InferResponse(g), !.permits = 0]

\* faulty variant of GenInterrupt: Exhaustion ends the loop on the first call too
GenInterrupt_lenient(g, kind) ==
    IF kind = "exhaustion"
    THEN GenOk([g EXCEPT !.exh = IF g.first THEN "first" ELSE "later"])
    ELSE GenFail([g EXCEPT !.err = TRUE], "error")

\* what the command does with an Err of infer_and_sample: on the first call
\* (173-178) Exhaustion becomes the exhausted-at-the-start error and an Error
\* is returned; in the loop (214-223) Exhaustion breaks with what has been
\* accumulated and an Error is returned
GenInterrupt(g, kind) ==
    IF kind = "exhaustion"
    THEN IF g.first
         THEN GenFail([g EXCEPT !.exh = "first"], ExhaustedAtStart)
         ELSE GenOk([g EXCEPT !.exh = "later"])
    ELSE GenFail([g EXCEPT !.err = TRUE], "error")

RECURSIVE Decodable(_)
\* tokenizer.decode followed by String::from_utf8 (184-189) gives a string
Decodable(out) ==
    IF out = <<>> THEN TRUE
    ELSE IF Head(out) = 1 THEN Decodable(Tail(out))
    ELSE Len(out) >= 2 /\ out[2] = 2 /\ Decodable(Tail(Tail(out)))

GenFrame ==
    UNCHANGED <<coreVars, newVars, pipeVars, kernVars,
                appTask, appDone, appTomb, appDeleted, appOps>>

\* the arrays of a payload differ in length or hold an empty token list
GenMalformed(tokens_, states_, transformers_) ==
    \/ Len(tokens_) # Len(states_)
    \/ Len(states_) # Len(transformers_)
    \/ \E i \in 1..Len(tokens_) : tokens_[i] = <<>>

\* the answer of the checks at 121-150 to a payload, "ok" when it passes
GenValidate(m, tokens_, states_, transformers_, lookup) ==
    IF Len(tokens_) # Len(states_) \/ Len(states_) # Len(transformers_)
    THEN "State, token, transformer length must be matched!"
    ELSE IF \E i \in 1..Len(states_) : states_[i] \notin DOMAIN m
    THEN "One or more state ids not exist!"
    ELSE IF /\ lookup = "One or more transformer ids not exist!"
            /\ \E i \in 1..Len(transformers_) : transformers_[i] # <<>>
    THEN lookup
    ELSE IF lookup \in {"Sampler id does not exist!", "error"}
    THEN lookup
    ELSE IF tokens_ = <<>> \/ \E i \in 1..Len(tokens_) : tokens_[i] = <<>>
    THEN "Empty token list!"
    ELSE "ok"

\* faulty variant of gen_payload: the token lists are not looked at
gen_payload_unchecked(t, tokens_, states_, transformers_, lookup, upd, roe) ==
    /\ LET v == GenValidate(infer_states, tokens_, states_, transformers_, lookup)
           g == [GenIdle EXCEPT !.malformed = GenMalformed(tokens_, states_, transformers_)]
       IN gen' = [gen EXCEPT ![t] =
            IF v \notin {"ok", "Empty token list!"}
            THEN GenFail(g, v)
            ELSE [g EXCEPT !.pc = IF upd THEN "update" ELSE "infer",
                           !.states = states_, !.upd = upd, !.roe = roe,
                           !.tokens = GenPrompt, !.permits = Len(states_)]]
    /\ UNCHANGED infer_states

\* what the command does with its payload: the checks (111-150), the locals of
\* the loop (153-155) and the request for one permit per state (158)
gen_payload(t, tokens_, states_, transformers_, lookup, upd, roe) ==
    /\ LET v == GenValidate(infer_states, tokens_, states_, transformers_, lookup)
           g == [GenIdle EXCEPT !.malformed = GenMalformed(tokens_, states_, transformers_)]
       IN gen' = [gen EXCEPT ![t] =
            IF v # "ok"
            THEN GenFail(g, v)
            ELSE [g EXCEPT !.pc = IF upd THEN "update" ELSE "infer",
                           !.states = states_, !.upd = upd, !.roe = roe,
                           !.tokens = tokens_[1], !.permits = Len(states_)]]
    /\ UNCHANGED infer_states

\* a task starts an infer command with some payload
gen_start(t) ==
    /\ GenFrame
    /\ gen[t].pc = "idle"
    /\ genReqs < GenMaxReqs
    /\ genReqs' = genReqs + 1
    /\ \E tokens_ \in GenTokenLists, states_ \in GenStateLists,
          transformers_ \in GenTransformerLists, lookup \in GenLookups,
          upd \in BOOLEAN, roe \in BOOLEAN :
            gen_payload(t, tokens_, states_, transformers_, lookup, upd, roe)

\* faulty variant of gen_update: the tokens are fed to the states before the
\* components are updated
gen_update_late(t, tu, su) ==
    /\ GenFrame
    /\ gen[t].pc = "update"
    /\ LET g == gen[t]
           roe == IF g.first THEN FALSE ELSE g.roe
           r == IF tu # "ok" THEN tu ELSE su
           fed == \A i \in 1..Len(g.states) : g.states[i] \in DOMAIN infer_states
           g1 == [g EXCEPT !.reset = @ \/ (roe /\ "exhaustion" \in {tu, su}),
                           !.updated = TRUE,
                           !.sent = IF fed THEN @ + 1 ELSE @,
                           !.wrote = IF fed THEN @ + 1 ELSE @]
       IN /\ infer_states' =
               IF fed
               THEN WriteBack(infer_states, g.states,
                              [i \in 1..Len(g.states) |-> infer_states[g.states[i]]],
                              g.tokens)
               ELSE infer_states
          /\ gen' = [gen EXCEPT ![t] =
               IF r = "ok" THEN [g1 EXCEPT !.pc = "sample"] ELSE GenInterrupt(g1, r)]
    /\ UNCHANGED genReqs

\* infer_and_sample with update_prompts (41-76): every transformer and the
\* sampler are updated with the tokens, a component that reports Exhaustion is
\* reset when reset_on_exhaustion was passed (false on the first call, 170),
\* and the first Err of transformer_update.and(sampler_update) is returned
gen_update(t, tu, su) ==
    /\ GenFrame
    /\ gen[t].pc = "update"
    /\ LET g == gen[t]
           roe == IF g.first THEN FALSE ELSE g.roe
           r == IF tu # "ok" THEN tu ELSE su
           g1 == [g EXCEPT !.reset = @ \/ (roe /\ "exhaustion" \in {tu, su}),
                           !.updated = TRUE]
       IN gen' = [gen EXCEPT ![t] =
               IF r = "ok" THEN [g1 EXCEPT !.pc = "infer"] ELSE GenInterrupt(g1, r)]
    /\ UNCHANGED <<infer_states, genReqs>>

\* AppState::infer up to the await (78-79, app.rs 102-120): the stored states
\* are cloned into the request, or "State .. doesn't exist!"
gen_infer_send(t) ==
    /\ GenFrame
    /\ gen[t].pc = "infer"
    /\ LET g == gen[t]
       IN gen' = [gen EXCEPT ![t] =
            IF \E i \in 1..Len(g.states) : g.states[i] \notin DOMAIN infer_states
            THEN GenInterrupt(g, "error")
            ELSE [g EXCEPT !.pc = "await", !.sent = @ + 1,
                           !.ctx = [i \in 1..Len(g.states) |-> infer_states[g.states[i]]]]]
    /\ UNCHANGED <<infer_states, genReqs>>

\* AppState::infer after the await (80-81, app.rs 120-129): the request failed,
\* or every returned state is inserted under its key
gen_infer_recv(t, ok) ==
    /\ GenFrame
    /\ gen[t].pc = "await"
    /\ LET g == gen[t]
       IN IF ok
          THEN /\ infer_states' = WriteBack(infer_states, g.states, g.ctx, g.tokens)
               /\ gen' = [gen EXCEPT ![t] = [g EXCEPT !.pc = "sample", !.wrote = @ + 1]]
          ELSE /\ gen' = [gen EXCEPT ![t] = GenInterrupt(g, "error")]
               /\ UNCHANGED infer_states
    /\ UNCHANGED genReqs

\* transform_logits, softmax and sample_token (85-100): an Err is an Error,
\* a token is pushed to out_tokens and becomes last_token (162, 181, 203, 225)
gen_sample(t, ok, token) ==
    /\ GenFrame
    /\ gen[t].pc = "sample"
    /\ LET g == gen[t]
       IN IF ok
          THEN /\ Len(g.out) < GenMaxPending
               /\ gen' = [gen EXCEPT ![t] =
                     [g EXCEPT !.pc = "decode", !.out = Append(@, token),
                               !.last_token = token, !.steps = @ + 1,
                               !.sampled = Append(@, token)]]
          ELSE gen' = [gen EXCEPT ![t] = GenInterrupt(g, "error")]
    /\ UNCHANGED <<infer_states, genReqs>>

\* faulty variant of gen_decode: out_tokens are moved to the result whether
\* they decode or not
gen_decode_eager(t) ==
    /\ GenFrame
    /\ gen[t].pc = "decode"
    /\ LET g == gen[t]
           g1 == IF TRUE
                 THEN [g EXCEPT !.result = @ \o g.out, !.inferred = @ + Len(g.out),
                                !.out = <<>>]
                 ELSE g
       IN /\ (g1.inferred >= GenTarget /\ g1.out = <<>>) \/ g.steps < GenMaxSteps
          /\ gen' = [gen EXCEPT ![t] =
            IF g1.inferred >= GenTarget /\ g1.out = <<>>
            THEN GenOk(g1)
            ELSE [g1 EXCEPT !.pc = IF g.upd THEN "update" ELSE "infer",
                            !.first = FALSE, !.tokens = <<g.last_token>>]]
    /\ UNCHANGED <<infer_states, genReqs>>

\* the head of the loop (184-200): out_tokens that decode are moved to the
\* result and counted; with GenTarget tokens and nothing pending the command
\* answers, otherwise the next call feeds last_token to every state (208)
gen_decode(t) ==
    /\ GenFrame
    /\ gen[t].pc = "decode"
    /\ LET g == gen[t]
           g1 == IF Decodable(g.out)
                 THEN [g EXCEPT !.result = @ \o g.out, !.inferred = @ + Len(g.out),
                                !.out = <<>>]
                 ELSE g
       IN /\ (g1.inferred >= GenTarget /\ g1.out = <<>>) \/ g.steps < GenMaxSteps
          /\ gen' = [gen EXCEPT ![t] =
            IF g1.inferred >= GenTarget /\ g1.out = <<>>
            THEN GenOk(g1)
            ELSE [g1 EXCEPT !.pc = IF g.upd THEN "update" ELSE "infer",
                            !.first = FALSE, !.tokens = <<g.last_token>>]]
    /\ UNCHANGED <<infer_states, genReqs>>

-----------------------------------------------------------------------------
(* components/infer/reset.rs: ResetSetting                                  *)

Min(a, b) == IF a <= b THEN a ELSE b

\* Option<T>: <<>> is None, <<x>> is Some(x)
None == <<>>

Some(x) == <<x>>

\* per-state lists of transformer ids a pipeline may be asked for
PipeTransformerLists ==
    {<< <<>> >>, << <<"t1">> >>, << <<"t1", "t2">> >>, << <<"t1">>, <<"t2">> >>,
     << <<"t1">>, <<"t1">> >>, << <<"t2">>, <<>> >>, << <<"t2", "t1">> >>}

\* per-state lists of flags a client may send
ResetFlagLists ==
    {<<>>, << <<TRUE>> >>, << <<FALSE>>, <<TRUE>> >>, << <<TRUE, FALSE>> >>,
     << <<TRUE>>, <<>> >>, << <<FALSE>>, <<TRUE>>, <<TRUE>> >>}

\* Option<Value> given to from_value: absent, a bool, an object with optional
\* fields (ResetData, 12-17), or another JSON value
ResetValues ==
    {[kind |-> "absent", flag |-> FALSE, transformers |-> None, sampler |-> None,
      normalizer |-> None]}
    \cup {[kind |-> "bool", flag |-> b, transformers |-> None, sampler |-> None,
           normalizer |-> None] : b \in BOOLEAN}
    \cup {[kind |-> "other", flag |-> FALSE, transformers |-> None, sampler |-> None,
           normalizer |-> None]}
    \cup {[kind |-> "object", flag |-> FALSE, transformers |-> tr, sampler |-> sa,
           normalizer |-> no] :
             tr \in {None} \cup {Some(f) : f \in ResetFlagLists},
             sa \in {None, Some(FALSE)}, no \in {None, Some(FALSE)}}

ResetErr(msg) ==
    [ok |-> FALSE, err |-> msg, transformers |-> <<>>, sampler |-> FALSE,
     normalizer |-> FALSE]

ResetOk(transformers_, sampler_, normalizer_) ==
    [ok |-> TRUE, err |-> "", transformers |-> transformers_, sampler |-> sampler_,
     normalizer |-> normalizer_]

\* Option::unwrap_or
UnwrapOr(o, d) == IF o = None THEN d ELSE o[1]

\* ResetSetting::all_bool (20-26): one flag per id of the flattened lists
ResetSetting_all_bool(transformer_ids, value) ==
    ResetOk([i \in 1..Len(Flatten(transformer_ids)) |-> value], value, value)

\* ResetSetting::from_value (28-66); the shape test at 48-52 zips the flag lists
\* with the id lists, so it looks at as many pairs as the shorter of the two has
ResetSetting_from_value(transformer_ids, value) ==
    IF value.kind = "absent" THEN ResetSetting_all_bool(transformer_ids, TRUE)
    ELSE IF value.kind = "bool" THEN ResetSetting_all_bool(transformer_ids, value.flag)
    ELSE IF value.kind = "object"
    THEN LET sampler_ == UnwrapOr(value.sampler, TRUE)
             normalizer_ == UnwrapOr(value.normalizer, TRUE)
             transformers_ ==
                 UnwrapOr(value.transformers,
                          [i \in 1..Len(transformer_ids) |->
                              [j \in 1..Len(transformer_ids[i]) |-> TRUE]])
         IN IF \E i \in 1..Min(Len(transformers_), Len(transformer_ids)) :
                   Len(transformers_[i]) # Len(transformer_ids[i])
            THEN ResetErr("The shape of transformers and ids must match!")
            ELSE ResetOk(Flatten(transformers_), sampler_, normalizer_)
    ELSE ResetErr("Must be a bool or an object!")

NoResetCall ==
    [called |-> FALSE, ids |-> <<>>,
     value |-> [kind |-> "absent", flag |-> FALSE, transformers |-> None,
                sampler |-> None, normalizer |-> None],
     out |-> ResetErr("")]

\* a caller builds a ResetSetting for the transformer ids of its pipeline
reset_from_value(transformer_ids, value) ==
    /\ UNCHANGED notPipe
    /\ reset_call' = [called |-> TRUE, ids |-> transformer_ids, value |-> value,
                      out |-> ResetSetting_from_value(transformer_ids, value)]
    /\ UNCHANGED <<registry, pipe, pipeOps>>

-----------------------------------------------------------------------------
(* components/infer/mod.rs: SamplePipeline over the component maps, and the *)
(* generation that owns it                                                  *)

\* tasks that run a generation with a SamplePipeline
PipeTasks == {1, 2}

\* registry operations and generations started in one behaviour
PipeMaxOps == 4

\* sampling steps of one generation before the model ends it
PipeMaxSteps == 1

\* the components that may be registered: (map, id)
PipeComponents ==
    {<<"transformers", "t1">>, <<"transformers", "t2">>, <<"samplers", "s">>,
     <<"terminals", "e">>, <<"normalizers", "n">>}

\* the reset policies the generations of the model ask for
PipeResetValues ==
    {v \in ResetValues :
        \/ v.kind = "bool" /\ ~v.flag
        \/ v.kind = "object" /\ v.transformers = Some(<< <<TRUE>> >>)
                             /\ v.sampler = None /\ v.normalizer = None}

\* the error of new for a component that is not in its map (57, 67, 73, 81)
NotFound(c) ==
    IF c[1] = "transformers" THEN "Transformer not found!"
    ELSE IF c[1] = "samplers" THEN "Sampler not found!"
    ELSE IF c[1] = "terminals" THEN "Terminal not found!"
    ELSE "Normalizer not found!"

\* the order in which new takes its components (48-85)
BindOrder(p) ==
    [i \in 1..Len(Flatten(p.ids)) |-> <<"transformers", Flatten(p.ids)[i]>>]
    \o << <<"samplers", p.sampler>>, <<"terminals", p.terminal>> >>
    \o (IF p.normalizer = None THEN <<>> ELSE << <<"normalizers", p.normalizer[1]>> >>)

\* the HashSet test at 39-46
AllUnique(seq) == \A i \in 1..Len(seq) : \A j \in 1..Len(seq) : seq[i] = seq[j] => i = j

PipeIdle ==
    [pc |-> "idle", ids |-> <<>>, sampler |-> "", terminal |-> "", normalizer |-> None,
     rs |-> ResetErr(""), bound |-> {}, next |-> 0, steps |-> 0, cleared |-> {},
     updated |-> {}, res |-> "none"]

PipeInit ==
    /\ registry = {}
    /\ pipe = [t \in PipeTasks |-> PipeIdle]
    /\ pipeOps = 0
    /\ reset_call = NoResetCall

\* the components whose RefMut another live pipeline holds
BoundByOthers(t) == UNION {pipe[u].bound : u \in PipeTasks \ {t}}

PipeStart ==
    /\ pipeOps < PipeMaxOps
    /\ pipeOps' = pipeOps + 1

\* a component is put into its map; the insert waits while a RefMut of the
\* entry is alive
comp_register(c) ==
    /\ UNCHANGED notPipe
    /\ PipeStart
    /\ c \notin UNION {pipe[u].bound : u \in PipeTasks}
    /\ registry' = registry \cup {c}
    /\ UNCHANGED <<pipe, reset_call>>

\* a component is removed from its map; the remove waits while a RefMut of the
\* entry is alive
comp_remove(c) ==
    /\ UNCHANGED notPipe
    /\ PipeStart
    /\ c \in registry
    /\ c \notin UNION {pipe[u].bound : u \in PipeTasks}
    /\ registry' = registry \ {c}
    /\ UNCHANGED <<pipe, reset_call>>

\* faulty variant of PipeRelease: the guards taken so far stay alive
PipeRelease_leak(p) == p

\* the RefMut guards of a pipeline, or of a construction that returns early,
\* are dropped
PipeRelease(p) == [p EXCEPT !.bound = {}]

\* the generation ends: its pipeline is dropped and the command answers
PipeFinish(p, r) == [PipeRelease(p) EXCEPT !.pc = "idle", !.res = r]

\* a generation builds its ResetSetting and calls SamplePipeline::new, which
\* first tests that no transformer id occurs twice (39-46)
pipe_new(t, ids, normalizer, value) ==
    /\ UNCHANGED notPipe
    /\ pipe[t].pc = "idle"
    /\ PipeStart
    /\ LET rs == ResetSetting_from_value(ids, value)
           p == [PipeIdle EXCEPT !.ids = ids, !.sampler = "s", !.terminal = "e",
                                 !.normalizer = normalizer, !.rs = rs]
       IN pipe' = [pipe EXCEPT ![t] =
            IF ~rs.ok THEN PipeFinish(p, rs.err)
            ELSE IF ~AllUnique(Flatten(ids))
            THEN PipeFinish(p, "All transformer ids must be unique!")
            ELSE [p EXCEPT !.pc = "bind", !.next = 1]]
    /\ UNCHANGED <<registry, reset_call>>

\* faulty variant of pipe_bind: a component is taken although another pipeline
\* holds it
pipe_bind_shared(t) ==
    /\ UNCHANGED notPipe
    /\ pipe[t].pc = "bind"
    /\ LET p == pipe[t]
           c == BindOrder(p)[p.next]
       IN pipe' = [pipe EXCEPT ![t] =
               IF c \notin registry
               THEN PipeFinish(p, NotFound(c))
               ELSE [p EXCEPT !.bound = @ \cup {c}, !.next = @ + 1,
                              !.pc = IF p.next = Len(BindOrder(p)) THEN "ready" ELSE "bind"]]
    /\ UNCHANGED <<registry, pipeOps, reset_call>>

\* SamplePipeline::new takes its next component (48-85): get_transformer,
\* get_sampler, get_terminal and get_normalizer return the RefMut of the entry,
\* waiting while another RefMut of it is alive, or None; on None new returns
\* Err and what it has taken is dropped
pipe_bind(t) ==
    /\ UNCHANGED notPipe
    /\ pipe[t].pc = "bind"
    /\ LET p == pipe[t]
           c == BindOrder(p)[p.next]
       IN /\ c \in registry => c \notin BoundByOthers(t)
          /\ pipe' = [pipe EXCEPT ![t] =
               IF c \notin registry
               THEN PipeFinish(p, NotFound(c))
               ELSE [p EXCEPT !.bound = @ \cup {c}, !.next = @ + 1,
                              !.pc = IF p.next = Len(BindOrder(p)) THEN "ready" ELSE "bind"]]
    /\ UNCHANGED <<registry, pipeOps, reset_call>>

\* the generation asks for its InferTicket and waits for the permits
pipe_acquire(t) ==
    /\ UNCHANGED notPipe
    /\ pipe[t].pc = "ready"
    /\ pipe' = [pipe EXCEPT ![t].pc = "acquire"]
    /\ UNCHANGED <<registry, pipeOps, reset_call>>

\* the permits are granted
pipe_admitted(t) ==
    /\ UNCHANGED notPipe
    /\ pipe[t].pc = "acquire"
    /\ pipe' = [pipe EXCEPT ![t].pc = "update"]
    /\ UNCHANGED <<registry, pipeOps, reset_call>>

\* what SamplePipeline::reset clears (117-143): the transformers zipped with
\* the flags, the sampler and the normalizer
ResetCleared(p) ==
    {<<"transformers", Flatten(p.ids)[i]>> :
        i \in {j \in 1..Min(Len(Flatten(p.ids)), Len(p.rs.transformers)) :
                  p.rs.transformers[j]}}
    \cup (IF p.rs.sampler THEN {<<"samplers", p.sampler>>} ELSE {})
    \cup (IF p.rs.normalizer /\ p.normalizer # None
          THEN {<<"normalizers", p.normalizer[1]>>} ELSE {})

\* the batch sizes of the token lists given to update
PipeBatchSizes == {1, 2}

BatchMismatch == "Transformer/tokens batch size mismatch!"

\* the transformers of pipeline p
PipeTransformers(p) == {<<"transformers", Flatten(p.ids)[i]>> : i \in 1..Len(Flatten(p.ids))}

\* SamplePipeline::update (97-115) with the token lists of n states: the
\* sampler first (98), then the test of the batch size (99-103), then the
\* transformers (104-113), which run in parallel, so that when one of them
\* fails any of the others may have been updated; the first Err is returned.
\* updated is what the call has updated. On Exhaustion the generation resets
\* the pipeline and ends, on an Error it fails
pipe_update(t, n, su, tu) ==
    /\ UNCHANGED notPipe
    /\ pipe[t].pc = "update"
    /\ LET p == pipe[t]
           s_ == {<<"samplers", p.sampler>>}
       IN \E U \in SUBSET PipeTransformers(p) :
            /\ (su = "ok" /\ n = Len(p.ids) /\ tu = "ok") => U = PipeTransformers(p)
            /\ (su = "ok" /\ n = Len(p.ids) /\ tu # "ok") => U # PipeTransformers(p)
            /\ (su # "ok" \/ n # Len(p.ids)) => U = {}
            /\ LET r == IF su # "ok" THEN su
                        ELSE IF n # Len(p.ids) THEN BatchMismatch
                        ELSE tu
                   q == [p EXCEPT !.updated = (IF su = "ok" THEN s_ ELSE {}) \cup U]
               IN pipe' = [pipe EXCEPT ![t] =
                    IF r = "ok" THEN [q EXCEPT !.pc = "await"]
                    ELSE IF r = "exhaustion"
                    THEN PipeFinish([q EXCEPT !.cleared = ResetCleared(p)], "ok")
                    ELSE PipeFinish(q, r)]
    /\ UNCHANGED <<registry, pipeOps, reset_call>>

\* the logits of the ticket arrive; sample (146-164) and terminate (167-169)
\* give the next token and say whether the generation is over
pipe_sample(t, stop) ==
    /\ UNCHANGED notPipe
    /\ pipe[t].pc = "await"
    /\ LET p == pipe[t]
       IN pipe' = [pipe EXCEPT ![t] =
            IF stop \/ p.steps + 1 >= PipeMaxSteps
            THEN PipeFinish([p EXCEPT !.steps = @ + 1], "ok")
            ELSE [p EXCEPT !.steps = @ + 1, !.pc = "update"]]
    /\ UNCHANGED <<registry, pipeOps, reset_call>>

-----------------------------------------------------------------------------
(* components/model.rs: AxumModel::run and AxumModel::infer                 *)

\* tokens the caller adds to one slot before a call (bounds the model); the
\* list of a slot never grows beyond it
KernMaxLen == 2

\* calls of infer in one run (bounds the model)
KernMaxCalls == 3

\* the most tokens one kernel run takes, over all slots
KernChunk == 2

KernTokens == {1, 2}

\* the runs one call can need: every run that returns no logits has taken a
\* token
KernMaxRuns == BatchSize * KernMaxLen

KernSlots == 1..BatchSize

\* what the caller may add to the lists of the slots before a call
KernAdds == [KernSlots -> UNION {[1..n -> KernTokens] : n \in 0..KernMaxLen}]

RECURSIVE KernSum(_, _)
\* k[1] + ... + k[n]
KernSum(k, n) == IF n = 0 THEN 0 ELSE k[n] + KernSum(k, n - 1)

\* the number of tokens in the lists
KernTotal(tokens_) == KernSum([i \in KernSlots |-> Len(tokens_[i])], BatchSize)

\* the ways one kernel run may take tokens from the lists: from the head of
\* each list, KernChunk at most in all, and one at least when there is any
KernTakes(tokens_) ==
    {k \in [KernSlots -> 0..KernChunk] :
        /\ \A i \in KernSlots : k[i] <= Len(tokens_[i])
        /\ KernSum(k, BatchSize) <= KernChunk
        /\ KernTotal(tokens_) > 0 => KernSum(k, BatchSize) > 0}

\* Model::run of the kernel for one way of taking tokens: the taken tokens
\* leave the caller's lists, and logits are present for the slots whose list
\* was taken to its end by this run
Model_run(tokens_, k) ==
    [tokens |-> [i \in KernSlots |-> SubSeq(tokens_[i], k[i] + 1, Len(tokens_[i]))],
     logits |-> [i \in KernSlots |-> k[i] > 0 /\ k[i] = Len(tokens_[i])]]

\* the caller's token lists (mutated in place by the kernel), the logits and
\* the result of the last call; given is what the lists held when the call was
\* made, runs the kernel runs of the call, calls the calls made
KernInit ==
    kern = [pc |-> "idle",
            tokens |-> [i \in KernSlots |-> <<>>],
            given |-> [i \in KernSlots |-> <<>>],
            logits |-> [i \in KernSlots |-> FALSE],
            runs |-> 0, calls |-> 0, res |-> "none"]

\* the caller adds tokens to its lists and calls AxumModel::infer (163-167)
AxumModel_infer(add) ==
    /\ UNCHANGED notKern
    /\ kern.pc = "idle"
    /\ kern.calls < KernMaxCalls
    /\ \A i \in KernSlots : Len(kern.tokens[i]) + Len(add[i]) <= KernMaxLen
    /\ LET tokens_ == [i \in KernSlots |-> kern.tokens[i] \o add[i]]
       IN kern' = [kern EXCEPT !.pc = "run", !.tokens = tokens_, !.given = tokens_,
                               !.logits = [i \in KernSlots |-> FALSE],
                               !.runs = 0, !.calls = @ + 1, !.res = "none"]

\* faulty variant of the loop: infer returns what the first run gave
AxumModel_infer_loop_once(ok) ==
    /\ UNCHANGED notKern
    /\ kern.pc = "run"
    /\ kern.runs < KernMaxRuns
    /\ \E k \in KernTakes(kern.tokens) :
        LET r == Model_run(kern.tokens, k)
        IN IF ~ok
           THEN kern' = [kern EXCEPT !.pc = "idle", !.tokens = r.tokens,
                                     !.runs = @ + 1, !.res = "err"]
           ELSE kern' = [kern EXCEPT !.pc = "idle", !.tokens = r.tokens,
                                     !.logits = r.logits, !.runs = @ + 1,
                                     !.res = "ok"]

\* one turn of the loop of infer (168-173): run (122-143) hands the lists to
\* the kernel; an Err leaves through `?`, logits of any slot end the loop,
\* otherwise the kernel is run again
AxumModel_infer_loop(ok) ==
    /\ UNCHANGED notKern
    /\ kern.pc = "run"
    /\ kern.runs < KernMaxRuns
    /\ \E k \in KernTakes(kern.tokens) :
        LET r == Model_run(kern.tokens, k)
        IN IF ~ok
           THEN kern' = [kern EXCEPT !.pc = "idle", !.tokens = r.tokens,
                                     !.runs = @ + 1, !.res = "err"]
           ELSE IF \E i \in KernSlots : r.logits[i]
           THEN kern' = [kern EXCEPT !.pc = "idle", !.tokens = r.tokens,
                                     !.logits = r.logits, !.runs = @ + 1,
                                     !.res = "ok"]
           ELSE kern' = [kern EXCEPT !.tokens = r.tokens, !.runs = @ + 1]

-----------------------------------------------------------------------------
(* Specifications *)

\* the tasks that run generations, and the task that changes the registry
TicketTasks == {1, 2}

RegistryTask == CHOOSE t \in Tasks : t \notin TicketTasks

Init == AppInit /\ CoreInit /\ NewInit /\ GenInit /\ PipeInit /\ KernInit

\* InferStates with its tickets and pool: two tasks run generations while a
\* third one changes the registry
Next ==
    \/ \E id \in Ids : create_state_check(RegistryTask, id)
    \/ create_state_insert(RegistryTask)
    \/ \E id \in Ids : delete_state(RegistryTask, id)
    \/ \E src \in Ids, dst \in Ids : copy_state_check(RegistryTask, src, dst)
    \/ copy_state_sync(RegistryTask)
    \/ copy_state_insert(RegistryTask)
    \/ \E t \in TicketTasks, ids \in IdLists, upd \in BOOLEAN : create_ticket(t, ids, upd)
    \/ \E t \in TicketTasks : create_ticket_post(t)
    \/ \E t \in TicketTasks : InferTicket_infer_send(t)
    \/ \E t \in TicketTasks : InferTicket_infer_recv(t)
    \/ \E t \in TicketTasks : InferTicket_drop(t)
    \/ \E t \in TicketTasks : pool_gone_panic(t)
    \/ pool_cycle
    \/ pool_admit_fail

Spec == Init /\ [][Next]_vars

\* the generations alone: states are created, tickets are acquired for them,
\* driven and dropped; no state is deleted or copied
NextFair ==
    \/ \E id \in Ids : create_state_check(RegistryTask, id)
    \/ create_state_insert(RegistryTask)
    \/ \E t \in TicketTasks, ids \in IdLists : create_ticket(t, ids, TRUE)
    \/ \E t \in TicketTasks : create_ticket_post(t)
    \/ \E t \in TicketTasks : InferTicket_infer_send(t)
    \/ \E t \in TicketTasks : InferTicket_infer_recv(t)
    \/ \E t \in TicketTasks : InferTicket_drop(t)
    \/ \E t \in TicketTasks : pool_gone_panic(t)
    \/ pool_cycle
    \/ pool_admit_fail

\* the pool loop is one long-lived task of the runtime: it is scheduled
\* whenever it can take a step
SpecFair == Init /\ [][NextFair]_vars /\ WF_vars(PoolStep)

\* generations of several steps: every infer call of a ticket runs to its end
NextInfer ==
    \/ \E id \in Ids : create_state_check(RegistryTask, id)
    \/ create_state_insert(RegistryTask)
    \/ \E t \in TicketTasks, ids \in IdLists : create_ticket(t, ids, TRUE)
    \/ \E t \in TicketTasks : create_ticket_post(t)
    \/ \E t \in TicketTasks : InferTicket_infer_send_seq(t)
    \/ \E t \in TicketTasks : InferTicket_infer_recv(t)
    \/ \E t \in TicketTasks : InferTicket_drop(t)
    \/ \E t \in TicketTasks : pool_gone_panic(t)
    \/ pool_cycle
    \/ pool_admit_fail

SpecInfer == Init /\ [][NextInfer]_vars

\* the caller that cancels
CancelTask == CHOOSE t \in TicketTasks : \A u \in TicketTasks : t <= u

\* one caller runs generations, may drop the future of an infer call and go on
\* with its ticket
NextCancel ==
    \/ \E id \in Ids : create_state_check(RegistryTask, id)
    \/ create_state_insert(RegistryTask)
    \/ \E ids \in IdLists : create_ticket(CancelTask, ids, TRUE)
    \/ create_ticket_post(CancelTask)
    \/ InferTicket_infer_send_seq(CancelTask)
    \/ InferTicket_infer_recv(CancelTask)
    \/ InferTicket_infer_cancel(CancelTask)
    \/ InferTicket_drop(CancelTask)
    \/ pool_gone_panic(CancelTask)
    \/ pool_cycle
    \/ pool_admit_fail

SpecCancel == Init /\ [][NextCancel]_vars

\* the registry of InferStates under concurrent commands: every task may
\* change the registry and ask for a ticket; no generation is run
NextReg ==
    \/ \E t \in Tasks, id \in Ids : create_state_check(t, id)
    \/ \E t \in Tasks : create_state_insert(t)
    \/ \E t \in Tasks, id \in Ids : delete_state(t, id)
    \/ \E t \in Tasks, src \in Ids, dst \in Ids : copy_state_check(t, src, dst)
    \/ \E t \in Tasks : copy_state_sync(t)
    \/ \E t \in Tasks : copy_state_insert(t)

SpecReg == Init /\ [][NextReg]_vars

\* the task whose commands change the registry next to a copy
CopyPeer == CHOOSE t \in TicketTasks : t /= CancelTask

\* a copy next to a generation and to the commands of another task: one task
\* creates and copies states, one runs generations, one creates and deletes
NextCopy ==
    \/ \E id \in Ids : create_state_check(RegistryTask, id)
    \/ create_state_insert(RegistryTask)
    \/ \E src \in Ids, dst \in Ids : copy_state_check(RegistryTask, src, dst)
    \/ copy_state_sync(RegistryTask)
    \/ copy_state_insert(RegistryTask)
    \/ \E id \in Ids : create_state_check(CopyPeer, id)
    \/ create_state_insert(CopyPeer)
    \/ \E id \in Ids : delete_state(CopyPeer, id)
    \/ \E ids \in IdLists : create_ticket(CancelTask, ids, TRUE)
    \/ create_ticket_post(CancelTask)
    \/ InferTicket_infer_send(CancelTask)
    \/ InferTicket_infer_recv(CancelTask)
    \/ InferTicket_drop(CancelTask)
    \/ pool_gone_panic(CancelTask)
    \/ pool_cycle
    \/ pool_admit_fail

SpecCopy == Init /\ [][NextCopy]_vars

\* the admission of tickets alone: every task asks for tickets, posts them and
\* drops them; no generation is run
NextTickets ==
    \/ \E id \in Ids : create_state_check(RegistryTask, id)
    \/ create_state_insert(RegistryTask)
    \/ \E t \in Tasks, ids \in IdLists : create_ticket(t, ids, TRUE)
    \/ \E t \in Tasks : create_ticket_post(t)
    \/ \E t \in Tasks : InferTicket_drop(t)

\* every granted ticket is dropped in the end: its holder posts it and lets it
\* go
SpecTickets ==
    /\ Init
    /\ [][NextTickets]_vars
    /\ \A t \in Tasks : WF_vars(create_ticket_post(t)) /\ WF_vars(InferTicket_drop(t))

\* AppState of app.rs
NextApp == AppNext

SpecApp == Init /\ [][NextApp]_vars

\* the registry of components/state_new under concurrent commands
NextNew ==
    \/ \E t \in NewTasks, id \in Ids : New_create_state_check(t, id)
    \/ \E t \in NewTasks : New_create_state_insert(t)
    \/ \E t \in NewTasks, src \in Ids, dst \in Ids : New_copy_state_check(t, src, dst)
    \/ \E t \in NewTasks : New_copy_state_insert(t)
    \/ \E t \in NewTasks, id \in Ids : New_delete_state(t, id)
    \/ \E t \in NewTasks, ids \in AppKeyLists : New_infer_send(t, ids)
    \/ \E t \in NewTasks, answered \in BOOLEAN : New_infer_recv(t, answered)

SpecNew == Init /\ [][NextNew]_vars

\* the task whose commands run next to the infer command
GenPeer == CHOOSE t \in AppTasks : \A u \in AppTasks : t <= u

\* one infer command over AppState while another task creates and deletes states
NextGen ==
    \/ \E id \in Ids : App_create_state(GenPeer, id)
    \/ \E id \in Ids : App_delete_state(GenPeer, id)
    \/ \E t \in GenTasks : gen_start(t)
    \/ \E t \in GenTasks, tu \in GenOutcomes, su \in GenOutcomes : gen_update(t, tu, su)
    \/ \E t \in GenTasks : gen_infer_send(t)
    \/ \E t \in GenTasks, ok \in BOOLEAN : gen_infer_recv(t, ok)
    \/ \E t \in GenTasks, ok \in BOOLEAN, token \in GenTokens : gen_sample(t, ok, token)
    \/ \E t \in GenTasks : gen_decode(t)

SpecGen == Init /\ [][NextGen]_vars

\* calls of ResetSetting::from_value
NextReset ==
    \E transformer_ids \in PipeTransformerLists, value \in ResetValues :
        reset_from_value(transformer_ids, value)

SpecReset == Init /\ [][NextReset]_vars

\* generations with a SamplePipeline next to operations on the component maps
NextPipe ==
    \/ \E c \in PipeComponents : comp_register(c)
    \/ \E c \in PipeComponents : comp_remove(c)
    \/ \E t \in PipeTasks, ids \in PipeTransformerLists, normalizer \in {None, Some("n")},
          value \in PipeResetValues : pipe_new(t, ids, normalizer, value)
    \/ \E t \in PipeTasks : pipe_bind(t)
    \/ \E t \in PipeTasks : pipe_acquire(t)
    \/ \E t \in PipeTasks : pipe_admitted(t)
    \/ \E t \in PipeTasks, n \in PipeBatchSizes, su \in GenOutcomes, tu \in GenOutcomes :
          pipe_update(t, n, su, tu)
    \/ \E t \in PipeTasks, stop \in BOOLEAN : pipe_sample(t, stop)

SpecPipe == Init /\ [][NextPipe]_vars

\* calls of AxumModel::infer by its one caller
NextKern ==
    \/ \E add \in KernAdds : AxumModel_infer(add)
    \/ AxumModel_infer_loop(TRUE)
    \/ AxumModel_infer_loop(FALSE)

\* infer is a synchronous loop on the thread of its caller: a run that
\* succeeds is followed by the test of its logits and by the next run
SpecKern == Init /\ [][NextKern]_vars /\ WF_vars(AxumModel_infer_loop(TRUE))

-----------------------------------------------------------------------------
(* Properties *)

RECURSIVE SumLive(_, _)
\* f summed over the live tickets 1..k
SumLive(f(_), k) ==
    IF k = 0 THEN 0
    ELSE (IF tickets[k].live THEN f(tickets[k]) ELSE 0) + SumLive(f, k - 1)

PermitOf(ticket) == ticket.permit

StatesOf(ticket) == Len(ticket.hs)

\* permits held by live tickets; states driven by live tickets
LivePermits == SumLive(PermitOf, Len(tickets))

LiveStates == SumLive(StatesOf, Len(tickets))

\* C1: concurrent infer / update_state calls on one id are serialised: while no
\* state has been deleted, the state stored under an id holds the tokens of
\* every completed call on that id, each as often as it was submitted
C1_SerialOrder ==
    ~appDeleted =>
        \A k \in DOMAIN infer_states : \A t \in AppTasks :
            Count(infer_states[k].st, t) = appDone[k][t]

\* C2: an id removed by delete_state stays absent from the registry, also after
\* an infer that was in flight at the delete has completed, until it is created
\* again (so that every later infer naming it fails)
C2_DeletedStaysAbsent == \A k \in appTomb : k \notin DOMAIN infer_states

\* C3: once delete_state(id) has returned, id is absent until it is inserted
\* again; a create_ticket call goes on to the semaphore only with handles that
\* the registry holds at that moment (it fails with 'State not found!'
\* otherwise); delete_state leaves every ticket, its handle references, its
\* channels and its slots as they are
C3_DeleteHidesState ==
    [][/\ \A id \in tomb' : id \notin DOMAIN states'
       /\ \A t \in TicketTasks :
             (task[t].pc = "idle" /\ task'[t].pc \in {"wait", "post"}) =>
                 \A i \in 1..Len(task'[t].hs) :
                     \E id \in DOMAIN states : states[id] = task'[t].hs[i]
       /\ \A k \in 1..Len(tickets) : tickets'[k].hs = tickets[k].hs
       /\ (tomb' /= tomb /\ tomb \subseteq tomb') =>
             UNCHANGED <<tickets, slots, request_queue, permits, waiters>>
      ]_vars

\* C3 witness: a ticket acquired before the delete of its state has sent an
\* infer after the delete and received its logits, while a create_ticket that
\* started after the delete has failed
C3_Witness ==
    \E t \in TicketTasks, u \in TicketTasks :
        /\ task[t].pc = "ticket"
        /\ tickets[task[t].tk].sentInvalid
        /\ tickets[task[t].tk].recvd = 1
        /\ handles[tickets[task[t].tk].hs[1]].id \in tomb
        /\ task[u].pc = "idle"
        /\ task[u].res = "State not found!"

C5_UniqueIds ==
    \A h \in 1..Len(handles) :
        handles[h].valid =>
            /\ handles[h].id \in DOMAIN states
            /\ states[handles[h].id] = h

\* C6: the live tickets hold at most max_concurrency permits and drive at most
\* max_concurrency states; every other create_ticket call is waiting in the
\* queue of the semaphore, with no ticket
C6_AdmissionCap ==
    /\ LivePermits <= MaxConcurrency
    /\ LiveStates <= MaxConcurrency
    /\ \A t \in TicketTasks :
          task[t].pc = "wait" =>
              /\ Count(waiters, t) = 1
              /\ \A k \in 1..Len(tickets) : ~(tickets[k].live /\ tickets[k].owner = t)
    /\ \A i \in 1..Len(waiters) : task[waiters[i]].pc = "wait"

\* C6 witness: 2 x max_concurrency states are requested; the tickets of
\* max_concurrency of them are live and the other request waits
C6_Witness ==
    /\ LiveStates = MaxConcurrency
    /\ \E t \in TicketTasks :
          task[t].pc = "wait" /\ Len(task[t].hs) = MaxConcurrency

\* C7: the pool never has to admit a request when no slot is free: at most
\* batch_size slots are bound and the pool loop never ends on an admission
C7_SlotAlwaysFree ==
    /\ Cardinality(BoundSlots(slots)) <= BatchSize
    /\ poolPc /= "failed"

\* C8: create_ticket gets its N permits in one step: a waiting call holds no
\* permit and has returned no error, a live ticket holds one permit per state,
\* and only tickets that hold all their permits have a request in the queue or
\* in a slot
C8_AtomicAcquire ==
    /\ \A t \in TicketTasks :
          task[t].pc = "wait" =>
              /\ task[t].res = "none"
              /\ \A k \in 1..Len(tickets) : tickets[k].owner = t => tickets[k].permit = 0
    /\ \A k \in 1..Len(tickets) :
          tickets[k].posted /\ tickets[k].live => tickets[k].permit = Len(tickets[k].hs)
    /\ \A i \in 1..Len(request_queue) : tickets[request_queue[i]].posted
    /\ \A s \in SlotIds : slots[s].bound => tickets[slots[s].tk].posted
    /\ \A t \in TicketTasks :
          task[t].pc = "post" =>
              /\ ~tickets[task[t].tk].posted
              /\ tickets[task[t].tk].permit = Len(tickets[task[t].tk].hs)

\* C8 witness: a call for two states waits while a posted ticket holds permits,
\* and a call has been served from the queue
C8_Witness ==
    \E t \in TicketTasks, k \in 1..Len(tickets) :
        /\ task[t].pc = "wait"
        /\ Len(task[t].hs) = 2
        /\ tickets[k].posted
        /\ tickets[k].live

\* C9: a ticket holds its permits as long as it lives and gives them back once,
\* when it is dropped: the permits in the semaphore and the permits of the
\* live tickets always add up to max_concurrency
C9_PermitConservation ==
    /\ permits >= 0
    /\ permits + LivePermits = MaxConcurrency
    /\ \A k \in 1..Len(tickets) :
          IF tickets[k].live
          THEN tickets[k].permit = Len(tickets[k].hs)
          ELSE tickets[k].permit = 0

\* C9 witness: a ticket has been dropped, another one is live after an infer
C9_Witness ==
    \E k \in 1..Len(tickets), j \in 1..Len(tickets) :
        /\ ~tickets[k].live
        /\ tickets[j].live
        /\ tickets[j].recvd = 1

\* a slot is still bound for a ticket that has been dropped
DroppedSlotBound ==
    \E s \in SlotIds : slots[s].bound /\ ~tickets[slots[s].tk].live

\* C10: after a ticket is dropped the pool frees its slots: whenever a slot is
\* bound for a dropped ticket, eventually no slot is
C10_DroppedSlotsFreed == DroppedSlotBound ~> ~DroppedSlotBound

IsSuffix(a, b) ==
    /\ Len(a) <= Len(b)
    /\ \A j \in 1..Len(a) : a[j] = b[Len(b) - Len(a) + j]

RECURSIVE SentFlat(_, _)
\* the token vectors of the first n infer calls on ticket tk, one after the other
SentFlat(tk, n) == IF n = 0 THEN <<>> ELSE SentFlat(tk, n - 1) \o TokensOf(tk, n)

\* C12: on every slot of a live ticket the pool consumes the token vectors in
\* the order the infer calls sent them (what the slot holds ends with the
\* vectors sent so far, in order, and what is still pending is their tail), and
\* the k-th logits delivered on the slot are the result of the first k vectors
C12_SlotOrder ==
    /\ \A s \in SlotIds :
          (slots[s].bound /\ tickets[slots[s].tk].live) =>
              LET k == slots[s].tk
                  pending == slots[s].buf \o Flatten(tickets[k].tok[slots[s].i])
              IN /\ IsSuffix(SentFlat(k, tickets[k].sent), slots[s].gpu \o pending)
                 /\ IsSuffix(pending, SentFlat(k, tickets[k].sent))
    /\ \A k \in 1..Len(tickets) :
          tickets[k].live =>
              \A i \in 1..Len(tickets[k].hs) :
                  /\ tickets[k].got[i] /= <<>> =>
                        IsSuffix(SentFlat(k, tickets[k].recvd), tickets[k].got[i])
                  /\ \A j \in 1..Len(tickets[k].log[i]) :
                        IsSuffix(SentFlat(k, tickets[k].recvd + j), tickets[k].log[i][j])

\* C12 witness: the third infer call of a ticket on two states has returned
C12_Witness ==
    \E k \in 1..Len(tickets) :
        /\ tickets[k].live
        /\ Len(tickets[k].hs) = 2
        /\ tickets[k].recvd = 3
        /\ \A i \in 1..2 : tickets[k].got[i] /= <<>>

\* C13: an infer call that has returned holds, for every slot, logits computed
\* for the tokens this call sent, also after an earlier call on the ticket
\* was cancelled
C13_CancelSafe ==
    \A t \in TicketTasks :
        task[t].pc = "ticket" =>
            \A i \in 1..Len(tickets[task[t].tk].hs) :
                tickets[task[t].tk].got[i] /= <<>> =>
                    IsSuffix(TokensOf(task[t].tk, tickets[task[t].tk].sent),
                             tickets[task[t].tk].got[i])

\* C14: after a deep copy src and dst are independent: two registered ids never
\* share a handle, the copy starts from the snapshot of src, and afterwards the
\* snapshot of a handle changes only when a slot bound to that very handle is
\* backed to it, so that advancing one id leaves the snapshot of the other
C14_DeepCopyIndependent ==
    [][/\ \A x \in DOMAIN states', y \in DOMAIN states' :
             x /= y => states'[x] /= states'[y]
       /\ \A h \in 1..Len(handles') :
             IF h > Len(handles)
             THEN handles'[h].origin /= "" =>
                      /\ handles'[h].origin \in DOMAIN states
                      /\ handles'[h].snapshot = handles[states[handles'[h].origin]].snapshot
             ELSE handles'[h].snapshot /= handles[h].snapshot =>
                      \E s \in SlotIds : /\ slots[s].bound
                                         /\ slots[s].h = h
                                         /\ tickets[slots[s].tk].upd
      ]_vars

\* C14 witness: dst was copied from src, and one of them has since been
\* advanced while the other kept its snapshot
C14_Witness ==
    \E src \in DOMAIN states, dst \in DOMAIN states :
        /\ src /= dst
        /\ handles[states[dst]].origin = src
        /\ handles[states[src]].origin = ""
        /\ handles[states[dst]].snapshot /= handles[states[src]].snapshot

\* C15: a create_state call that completes on an id that is in the registry
\* fails and leaves the registry and the handles as they are; on an absent id
\* it adds a fresh empty handle under that id and changes no other entry
C15_CreateContract ==
    [][\A t \in Tasks :
          /\ (task[t].pc = "create_insert" /\ task'[t].pc = "idle") =>
                IF task[t].id \in DOMAIN states
                THEN /\ task'[t].res /= "ok"
                     /\ states' = states
                     /\ handles' = handles
                ELSE /\ task'[t].res = "ok"
                     /\ states' = MapInsert(states, task[t].id, Len(handles) + 1)
                     /\ handles' = Append(handles, NamedState_new(task[t].id))
          /\ (task[t].pc = "idle" /\ task'[t].res = "State already exists!"
                /\ ops' /= ops) =>
                (states' = states /\ handles' = handles)
      ]_vars

\* C16: a copy_state call that completes fails with an error and leaves the
\* registry as it is when dst exists or src does not; when it succeeds dst was
\* absent, src present, and exactly the entry dst is added
C16_CopyContract ==
    [][\A t \in Tasks :
          (task[t].pc = "copy_insert" /\ task'[t].pc = "idle") =>
              IF task[t].id \in DOMAIN states \/ task[t].src \notin DOMAIN states
              THEN /\ task'[t].res \notin {"ok", "panic"}
                   /\ states' = states
                   /\ handles' = handles
              ELSE /\ task'[t].res = "ok"
                   /\ states' = MapInsert(states, task[t].id, Len(handles) + 1)
                   /\ \A h \in 1..Len(handles) : handles'[h] = handles[h]
      ]_vars

\* C17: the registered ids are exactly the ids added by a successful create or
\* copy and not removed by a successful delete since: an infer request that
\* names an absent id adds no entry to the registry.
C17_RegisteredIds == DOMAIN new_states = new_reg

\* the handle index h is in use by the pool or by a ticket
Resident(sl, tks, h) ==
    \/ \E x \in SlotIds : sl[x].bound /\ sl[x].h = h
    \/ \E k \in 1..Len(tks) : tks[k].live /\ h \in Range(tks[k].hs)

GenAnswered(t) == gen[t].pc = "idle" /\ gen[t].res # "none"

\* C19: Exhaustion reported on the first step of a generation fails the
\* request with the exhausted-at-the-start error and no result; Exhaustion on
\* a later step ends the loop with success and the text, last token and token
\* count accumulated so far; any other error at any step fails the request.
C19_ExhaustionHandling ==
    \A t \in GenTasks :
        LET g == gen[t]
        IN GenAnswered(t) =>
             /\ (g.exh # "none" /\ g.steps = 0) =>
                   g.res = ExhaustedAtStart /\ g.resp = NoResponse
             /\ (g.exh # "none" /\ g.steps > 0) =>
                   /\ g.res = "ok"
                   /\ g.resp = [value |-> g.result, last_token |-> g.last_token,
                                inferred_tokens |-> Len(g.result) + 1]
             /\ g.err => g.res \notin {"ok", "none"} /\ g.resp = NoResponse
             /\ g.res = ExhaustedAtStart => g.exh # "none" /\ g.steps = 0

\* a generation was ended by Exhaustion after its first step, with text
\* decoded and a sampled token still undecoded
C19_Witness ==
    \E t \in GenTasks :
        /\ GenAnswered(t)
        /\ gen[t].exh # "none"
        /\ gen[t].steps > 1
        /\ gen[t].resp.value # <<>>
        /\ gen[t].out # <<>>

\* C20: when the first step of a generation reports Exhaustion, the request
\* has submitted no tokens to the pool and has written no state of the registry.
C20_FirstExhaustionNoEffect ==
    \A t \in GenTasks :
        (gen[t].exh # "none" /\ gen[t].steps = 0) =>
            gen[t].sent = 0 /\ gen[t].wrote = 0

\* a request over registered states was refused for Exhaustion at its first step
C20_Witness ==
    \E t \in GenTasks :
        /\ gen[t].res = ExhaustedAtStart
        /\ gen[t].upd
        /\ \A i \in 1..Len(gen[t].states) : gen[t].states[i] \in DOMAIN infer_states
        /\ \E i \in 1..Len(gen[t].states) : infer_states[gen[t].states[i]] = NoneState

\* C21: when an update receives Exhaustion from a transformer or from the
\* sampler and the request's reset flag is true, the component is reset; when
\* the flag is false it is not reset and Exhaustion reaches the generation loop.
C21_ResetOnExhaustion ==
    [][\A t \in GenTasks : \A tu \in {"ok", "exhaustion"}, su \in {"ok", "exhaustion"} :
        (gen_update(t, tu, su) /\ "exhaustion" \in {tu, su}) =>
            /\ gen'[t].reset = gen[t].roe
            /\ gen'[t].exh # "none"]_vars

\* C22: an infer request whose tokens, states and transformers arrays differ in
\* length, or with an empty per-state token list, is answered with a validation
\* error, and the request has then taken no permit, updated no component,
\* submitted nothing to the pool and changed no state.
C22_ValidationFirst ==
    \A t \in GenTasks :
        gen[t].malformed =>
            /\ gen[t].pc = "idle"
            /\ gen[t].res \notin {"ok", "none"}
            /\ gen[t].resp = NoResponse
            /\ gen[t].permits = 0
            /\ ~gen[t].updated
            /\ gen[t].sent = 0 /\ gen[t].wrote = 0

\* a request on registered states was refused for an empty token list
C22_Witness ==
    \E t \in GenTasks :
        /\ gen[t].malformed
        /\ gen[t].res = "Empty token list!"
        /\ DOMAIN infer_states # {}

\* two lists of lists have the same number of lists and the same length of each
SameShape(a, b) ==
    /\ Len(a) = Len(b)
    /\ \A i \in 1..Len(a) : Len(a[i]) = Len(b[i])

\* C23: from_value of a boolean gives that boolean for every transformer, the
\* sampler and the normalizer; an object whose flag lists do not have the shape
\* of the transformer id lists is rejected; a ResetSetting that is returned has
\* one flag per transformer of the flattened ids.
C23_ResetShape ==
    reset_call.called =>
        LET ids == reset_call.ids
            value == reset_call.value
            out == reset_call.out
        IN /\ value.kind = "bool" =>
                 /\ out.ok
                 /\ out.transformers = [i \in 1..Len(Flatten(ids)) |-> value.flag]
                 /\ out.sampler = value.flag /\ out.normalizer = value.flag
           /\ (/\ value.kind = "object"
               /\ value.transformers # None
               /\ ~SameShape(value.transformers[1], ids)) => ~out.ok
           /\ out.ok => Len(out.transformers) = Len(Flatten(ids))

\* the answers of SamplePipeline::new when it builds no pipeline
NewErrors ==
    {"All transformer ids must be unique!", "Transformer not found!",
     "Sampler not found!", "Terminal not found!", "Normalizer not found!"}

\* the task owns a SamplePipeline
PipeLive(t) == pipe[t].pc \in {"ready", "acquire", "update", "await"}

\* C24: SamplePipeline::new builds no pipeline when a transformer id occurs
\* twice or a named component is not registered: a pipeline that exists has
\* distinct transformers and holds every component it names, all registered;
\* after a failed construction the task holds no component.
C24_NewFailsClean ==
    \A t \in PipeTasks :
        /\ pipe[t].pc # "idle" => AllUnique(Flatten(pipe[t].ids))
        /\ PipeLive(t) =>
              /\ pipe[t].bound = Range(BindOrder(pipe[t]))
              /\ pipe[t].bound \subseteq registry
        /\ (pipe[t].pc = "idle" /\ pipe[t].res \in NewErrors) => pipe[t].bound = {}

\* a construction failed on a missing component after it had taken another one
C24_Witness ==
    \E t \in PipeTasks :
        /\ pipe[t].pc = "idle"
        /\ pipe[t].res \in NewErrors \ {"All transformer ids must be unique!"}
        /\ pipe[t].next > 1

\* C25: a component is held by at most one live SamplePipeline, and while it
\* is held no registry operation removes or replaces it.
C25_ExclusiveBorrow ==
    /\ [](\A t \in PipeTasks : \A u \in PipeTasks \ {t} :
            pipe[t].bound \cap pipe[u].bound = {})
    /\ [][\A c \in UNION {pipe[t].bound : t \in PipeTasks} :
            (c \in registry) = (c \in registry')]_vars

\* a construction waits for a component that a live pipeline holds
C25_Witness ==
    \E t \in PipeTasks : \E u \in PipeTasks \ {t} :
        /\ pipe[t].pc = "bind"
        /\ PipeLive(u)
        /\ BindOrder(pipe[t])[pipe[t].next] \in pipe[u].bound

C27_TokenCount ==
    \A t \in GenTasks :
        (GenAnswered(t) /\ gen[t].res = "ok") =>
            gen[t].resp.inferred_tokens = Len(gen[t].resp.value)

\* C28: during the loop and at return the text is made of chunks that decoded,
\* the text followed by the pending tokens is the sampled sequence, so the text
\* is a prefix of it and no token is skipped or reordered, and the response
\* carries that text.
C28_TextIsDecodedPrefix ==
    \A t \in GenTasks :
        /\ Decodable(gen[t].result)
        /\ gen[t].result \o gen[t].out = gen[t].sampled
        /\ (GenAnswered(t) /\ gen[t].res = "ok") => gen[t].resp.value = gen[t].result

\* a token that did not decode alone stayed pending and entered the text with
\* the next one
C28_Witness ==
    \E t \in GenTasks :
        /\ GenAnswered(t)
        /\ gen[t].res = "ok"
        /\ \E k \in 1..Len(gen[t].resp.value) : gen[t].resp.value[k] = 2

\* the slots that hold the source of the copy of task t with tokens still to
\* run
SyncPending(t) ==
    {s \in SlotIds :
        /\ slots[s].bound
        /\ task[t].src \in DOMAIN states
        /\ slots[s].h = states[task[t].src]
        /\ (slots[s].buf /= <<>> \/ tickets[slots[s].tk].tok[slots[s].i] /= <<>>)}

\* C29: a copy that waits for pool.sync(src) holds no Ref into the map and no
\* write of another task waits for a Ref; the copy leaves the sync only when
\* nothing is pending for src in the pool, and it reads src, to clone it, only
\* after that.
C29_SyncBeforeReadNoRef ==
    /\ [](\A t \in Tasks :
            task[t].pc = "copy_sync" =>
                /\ task[t].ref = ""
                /\ \A u \in Tasks \ {t} : ~Guarded(u))
    /\ [][\A t \in Tasks :
            /\ (task[t].pc = "copy_sync" /\ task'[t].pc /= "copy_sync") =>
                   (SyncPending(t) = {} /\ task'[t].pc = "copy_insert")
            /\ (task[t].pc /= "copy_insert" /\ task'[t].pc = "copy_insert") =>
                   task[t].pc = "copy_sync"]_vars

\* while a copy waits for the pool to finish with its source, another task has
\* created the destination
C29_Witness ==
    \E t \in Tasks :
        /\ task[t].pc = "copy_sync"
        /\ SyncPending(t) /= {}
        /\ task[t].id \in DOMAIN states

\* C30: a successful infer has logits for at least one slot; the tokens that
\* the kernel has not taken are still in the caller's lists, as the tail of
\* what the call was given; a call takes no more runs than it was given
\* tokens, and a call with a token in some list returns.
C30_InferLoop ==
    /\ [](/\ (kern.pc = "idle" /\ kern.res = "ok") =>
                 \E i \in KernSlots : kern.logits[i]
          /\ \A i \in KernSlots :
                 \E taken \in 0..Len(kern.given[i]) :
                     kern.tokens[i] =
                         SubSeq(kern.given[i], taken + 1, Len(kern.given[i]))
          /\ KernTotal(kern.given) > 0 =>
                 kern.runs <= KernTotal(kern.given) - KernTotal(kern.tokens))
    /\ ((kern.pc = "run" /\ KernTotal(kern.tokens) > 0) ~> kern.pc = "idle")

\* a call that needed more than one run and left tokens for the next call
C30_Witness ==
    /\ kern.pc = "idle"
    /\ kern.res = "ok"
    /\ kern.runs >= 2
    /\ KernTotal(kern.tokens) > 0

\* C31: a copy_state that races with a delete_state of its source ends with dst
\* inserted as a copy of the snapshot of src, or with an error result; it never
\* panics.
C31_CopyRaceNoPanic ==
    [][\A t \in Tasks :
          (task[t].pc = "copy_insert" /\ task'[t].pc = "idle") =>
              /\ task'[t].res /= "panic"
              /\ task'[t].res = "ok" =>
                     /\ task[t].src \in DOMAIN states
                     /\ task[t].id \in DOMAIN states'
                     /\ handles'[states'[task[t].id]].snapshot =
                            handles[states[task[t].src]].snapshot
      ]_vars

\* the place of task t in the queue of the semaphore, 0 when it is not waiting
QueuePlace(w, t) ==
    IF \E i \in 1..Len(w) : w[i] = t
    THEN CHOOSE i \in 1..Len(w) : w[i] = t
    ELSE 0

\* C32: a create_ticket call that waits for its permits is granted them in the
\* end, and no call is granted permits while a call that asked before it still
\* waits: neither one that waited behind it nor one that has just arrived.
C32_TicketGranted ==
    /\ \A t \in Tasks : (task[t].pc = "wait") ~> (task[t].pc /= "wait")
    /\ [][\A t \in Tasks, u \in Tasks :
            (/\ QueuePlace(waiters, t) > 0
             /\ QueuePlace(waiters', t) > 0
             /\ u /= t
             /\ task[u].pc \in {"idle", "wait"}
             /\ QueuePlace(waiters, u) = 0 \/ QueuePlace(waiters, u) > QueuePlace(waiters, t))
            => task'[u].pc /= "post"]_vars

\* a call waits at the head of the queue for more permits than are free, and a
\* later call that the free permits would satisfy waits behind it
C32_Witness ==
    /\ Len(waiters) >= 2
    /\ permits < PermitCount(task[waiters[1]].hs)
    /\ permits >= PermitCount(task[waiters[2]].hs)

\* the component that the construction of task t waits for: the next one it is
\* to take, held by another pipeline
WaitsFor(t) ==
    IF pipe[t].pc = "bind"
    THEN {BindOrder(pipe[t])[pipe[t].next]} \cap registry \cap BoundByOthers(t)
    ELSE {}

\* C33: two constructions of a SamplePipeline never block each other for ever:
\* there is no state in which each of them waits for a component that the
\* other one holds.
C33_NoCircularWait ==
    \A t \in PipeTasks, u \in PipeTasks :
        ~(/\ t /= u
          /\ WaitsFor(t) \cap pipe[u].bound /= {}
          /\ WaitsFor(u) \cap pipe[t].bound /= {})

\* C34: when update fails with the batch size mismatch error it has updated no
\* component, neither the sampler nor a transformer.
C34_MismatchUpdatesNothing ==
    \A t \in PipeTasks : pipe[t].res = BatchMismatch => pipe[t].updated = {}

\* the tokens that further steps of the loop may add to the pending ones
GenCompletions == UNION {[1..n -> GenTokens] : n \in 0..GenMaxSteps}

\* C35: the loop ends after finitely many sampled tokens whatever the decode
\* attempts give, also when no step ends in Exhaustion or in an error: the
\* exit by the stop condition, which needs the pending tokens to have been
\* decoded, stays within reach of further sampled tokens.
C35_StopReachable ==
    \A t \in GenTasks :
        gen[t].pc /= "idle" =>
            \E w \in GenCompletions : Decodable(gen[t].out \o w)

=============================================================================
